---- MODULE Spec2Model ----
(***************************************************************************)
(* Model of the signal / streak / cooldown engine and of the daily         *)
(* pipeline of kabu_per_bot (src/src/kabu_per_bot).                        *)
(*                                                                         *)
(* Representation                                                          *)
(*   - Python's None is Null for a string, NoValue for a number and None   *)
(*     for an object.                                                      *)
(*   - A trade date is its day ordinal; day 0 is a Monday, so that         *)
(*     date.weekday() is Weekday(d) = d % 7 (0 = Monday .. 6 = Sunday).    *)
(*     ISO dates sort as their ordinals do.                                *)
(*   - A metric value (PER, PSR) is an integer.  A median is held DOUBLED  *)
(*     (statistics.median of an even window is the mean of the two middle  *)
(*     values), so "value < median" is "2 * value < doubled median".       *)
(*   - Category labels are ASCII: PER_CHEAP = "PER割安", SUPER_PER_CHEAP = *)
(*     "超PER割安", PSR_CHEAP = "PSR割安", SUPER_PSR_CHEAP = "超PSR割安",  *)
(*     DATA_UNKNOWN = "データ不明".                                        *)
(*   - updated_at / calculated_at are wall-clock stamps (datetime.now())   *)
(*     that no decision reads; they are not part of the records.           *)
(*   - data_source / fetched_at of a snapshot are copied into the metric   *)
(*     row and read by nothing; they are not part of the records either.   *)
(*   - The context texts of the data-unknown message are "daily_metric"    *)
(*     for "日次指標計算" and "MarketDataError" for str(exc).              *)
(*   - An exception leaving a function is the field raised of its result.  *)
(*   - The earnings categories are WEEKLY_EARNINGS = "今週決算" and        *)
(*     TOMORROW_EARNINGS = "明日決算"; "TBD" is the time label "未定".     *)
(*     quarter / source / fetched_at of a calendar row are read by no      *)
(*     pipeline; they are not part of the records.                         *)
(***************************************************************************)
EXTENDS Integers, Sequences, FiniteSets, TLC

Null == "null"
None == [none |-> TRUE]
NoValue == 0 - 1000

\* ---------------------------------------------------------------- bounds
\* largest metric value drawn for evaluate_signal
MaxValue == 2
\* trade dates drawn for build_signal_state are 0..MaxDay
MaxDay == 8
\* largest streak_days of a previous state drawn for build_signal_state
MaxStreak == 2

\* timestamps spell the hours 0..MaxHour
MaxHour == 2
\* cooldown_hours is drawn from 0..MaxCooldown
MaxCooldown == 2

\* a watchlist handed to run_daily_pipeline holds at most MaxItems items
MaxItems == 2
\* run_daily_pipeline is started at most MaxRuns times in the streak runs
MaxRuns == 4
\* close prices drawn for the streak runs are 1..MaxClose
MaxClose == 3

\* an earnings calendar handed to an earnings pipeline holds at most MaxEntries rows
MaxEntries == 2

\* a FallbackMarketDataSource holds at most MaxSources sources
MaxSources == 3

\* a metric history handed to calculate_metric_medians holds at most MaxHistory rows
MaxHistory == 3
\* the window sizes drawn for calculate_metric_medians are 1..MaxWindow
MaxWindow == 3

\* a recent_entries list handed to evaluate_cooldown holds at most MaxRecent entries
MaxRecent == 3

\* max_items of the WatchlistService
MaxWatchItems == 2

\* a missing_fields list handed to format_data_unknown_message holds at most MaxFields names
MaxFields == 3

VARIABLES
    notification_log, \* notification_log collection: the set of NotificationLogEntry documents
    outbox,           \* bodies the message sender has delivered
    last_dispatch,    \* arguments and outcome of the latest _dispatch_with_cooldown call, or None
    sig_args,        \* arguments of the pending evaluate_signal call, or None
    evaluation,      \* SignalEvaluation returned by evaluate_signal, or None
    previous_state,  \* previous_state argument of build_signal_state, or None
    built_state,     \* SignalState returned by build_signal_state, or None
    daily_metrics,   \* daily_metrics collection: the set of DailyMetric documents
    metric_medians,  \* metric_medians collection: the set of MetricMedians documents
    signal_states,   \* signal_state collection: the set of SignalState documents
    run,             \* the pipeline call: pipeline, status, arguments, loop position, result
    last_item,       \* arguments and outcome of the latest loop body that processed a ticker, or None
    history,         \* the trade dates of the runs started so far
    fallback,        \* the FallbackMarketDataSource.fetch_snapshot call: sources, loop position, calls made, outcome
    calc,            \* a call of a pure function: its name (fn), arguments (args), done and result
    watchlist,         \* watchlist collection: the set of WatchlistItem documents
    watchlist_history, \* watchlist_history collection: the set of WatchlistHistoryRecord documents
    callers,           \* the WatchlistService calls in progress or finished, one per caller
    documents,         \* the documents of the migration store: the set of their paths
    migrators          \* the apply_initial_migration invocations, one per process

sigvars == <<sig_args, evaluation, previous_state, built_state>>

dispatchvars == <<notification_log, outbox, last_dispatch>>

storevars == <<daily_metrics, metric_medians, signal_states>>

dailyvars == <<daily_metrics, metric_medians, signal_states, run, last_item, history>>

fallbackvars == <<fallback>>

calcvars == <<calc>>

watchvars == <<watchlist, watchlist_history, callers>>

migrationvars == <<documents, migrators>>

vars == <<notification_log, outbox, last_dispatch, sig_args, evaluation, previous_state, built_state, daily_metrics, metric_medians, signal_states, run, last_item, history, fallback, calc, watchlist, watchlist_history, callers, documents, migrators>>

MetricTypes == {"PER", "PSR"}

\* --------------------------------------------------- firestore_schema.py
\* strip().upper() on the ticker spellings of the model ("t1" spells T1)
normalize_ticker(ticker) == IF ticker = "t1" THEN "T1" ELSE ticker

\* ------------------------------------------------------------- signal.py
Weekday(d) == d % 7

\* variant of Under: a null median counts as a median the value is below
Under_NullIsBelow(metric_value, median) == median = NoValue \/ 2 * metric_value < median

\* variant of Under: "<=" instead of "<"
Under_AtMost(metric_value, median) == median # NoValue /\ 2 * metric_value <= median

Under(metric_value, median) == median # NoValue /\ 2 * metric_value < median

StrongCategory(metric_type) ==
    IF metric_type = "PER" THEN "SUPER_PER_CHEAP" ELSE "SUPER_PSR_CHEAP"

NormalCategory(metric_type) ==
    IF metric_type = "PER" THEN "PER_CHEAP" ELSE "PSR_CHEAP"

\* variant of evaluate_signal: the last elif (under_1y and under_1w) is missing
evaluate_signal_without_1y_1w(ticker, trade_date, metric_type, metric_value, medians) ==
    IF metric_value = NoValue
    THEN [ticker |-> normalize_ticker(ticker), trade_date |-> trade_date, metric_type |-> metric_type,
          metric_value |-> NoValue, under_1w |-> FALSE, under_3m |-> FALSE,
          under_1y |-> FALSE, combo |-> Null, is_strong |-> FALSE, category |-> Null]
    ELSE
      LET under_1w == Under(metric_value, medians.median_1w)
          under_3m == Under(metric_value, medians.median_3m)
          under_1y == Under(metric_value, medians.median_1y)
          is_strong == under_1y /\ under_3m /\ under_1w
          combo == IF is_strong THEN "1Y+3M+1W"
                   ELSE IF under_1y /\ under_3m THEN "1Y+3M"
                   ELSE IF under_3m /\ under_1w THEN "3M+1W"
                   ELSE Null
          category == IF is_strong THEN StrongCategory(metric_type)
                      ELSE IF under_1y /\ under_3m THEN NormalCategory(metric_type)
                      ELSE IF under_3m /\ under_1w THEN NormalCategory(metric_type)
                      ELSE Null
      IN [ticker |-> normalize_ticker(ticker), trade_date |-> trade_date, metric_type |-> metric_type,
          metric_value |-> metric_value, under_1w |-> under_1w, under_3m |-> under_3m,
          under_1y |-> under_1y, combo |-> combo, is_strong |-> is_strong,
          category |-> category]

evaluate_signal(ticker, trade_date, metric_type, metric_value, medians) ==
    IF metric_value = NoValue
    THEN [ticker |-> normalize_ticker(ticker), trade_date |-> trade_date, metric_type |-> metric_type,
          metric_value |-> NoValue, under_1w |-> FALSE, under_3m |-> FALSE,
          under_1y |-> FALSE, combo |-> Null, is_strong |-> FALSE, category |-> Null]
    ELSE
      LET under_1w == Under(metric_value, medians.median_1w)
          under_3m == Under(metric_value, medians.median_3m)
          under_1y == Under(metric_value, medians.median_1y)
          is_strong == under_1y /\ under_3m /\ under_1w
          combo == IF is_strong THEN "1Y+3M+1W"
                   ELSE IF under_1y /\ under_3m THEN "1Y+3M"
                   ELSE IF under_3m /\ under_1w THEN "3M+1W"
                   ELSE IF under_1y /\ under_1w THEN "1Y+1W"
                   ELSE Null
          category == IF is_strong THEN StrongCategory(metric_type)
                      ELSE IF under_1y /\ under_3m THEN NormalCategory(metric_type)
                      ELSE IF under_3m /\ under_1w THEN NormalCategory(metric_type)
                      ELSE IF under_1y /\ under_1w THEN NormalCategory(metric_type)
                      ELSE Null
      IN [ticker |-> normalize_ticker(ticker), trade_date |-> trade_date, metric_type |-> metric_type,
          metric_value |-> metric_value, under_1w |-> under_1w, under_3m |-> under_3m,
          under_1y |-> under_1y, combo |-> combo, is_strong |-> is_strong,
          category |-> category]

has_signal(ev) == ev.category # Null

_is_same_signal(previous, current) ==
    IF previous.category # current.category THEN FALSE
    ELSE IF previous.combo # current.combo THEN FALSE
    ELSE IF previous.is_strong # current.is_strong THEN FALSE
    ELSE TRUE

\* the while loop: step back from a candidate day until it is not Sat/Sun
RECURSIVE SkipWeekend(_)
SkipWeekend(expected) ==
    IF Weekday(expected) >= 5 THEN SkipWeekend(expected - 1) ELSE expected

\* variant of _is_previous_business_day: the calendar day before, weekends not skipped
_is_previous_business_day_calendar(previous_trade_date, current_trade_date) ==
    previous_trade_date = current_trade_date - 1

_is_previous_business_day(previous_trade_date, current_trade_date) ==
    previous_trade_date = SkipWeekend(current_trade_date - 1)

\* variant of build_signal_state: streak_days starts from the previous streak, not from 0
build_signal_state_keep_streak(ev, previous) ==
    LET streak_days ==
          IF has_signal(ev)
          THEN IF /\ previous # None
                  /\ _is_same_signal(previous, ev)
                  /\ _is_previous_business_day(previous.trade_date, ev.trade_date)
               THEN previous.streak_days + 1
               ELSE 1
          ELSE IF previous # None THEN previous.streak_days ELSE 0
    IN [ticker |-> ev.ticker, trade_date |-> ev.trade_date,
        metric_type |-> ev.metric_type, metric_value |-> ev.metric_value,
        under_1w |-> ev.under_1w, under_3m |-> ev.under_3m, under_1y |-> ev.under_1y,
        combo |-> ev.combo, is_strong |-> ev.is_strong, category |-> ev.category,
        streak_days |-> streak_days]

\* variant of build_signal_state: a streak that starts is counted from 0
build_signal_state_streak_from_zero(ev, previous) ==
    LET streak_days ==
          IF has_signal(ev)
          THEN IF /\ previous # None
                  /\ _is_same_signal(previous, ev)
                  /\ _is_previous_business_day(previous.trade_date, ev.trade_date)
               THEN previous.streak_days + 1
               ELSE 0
          ELSE 0
    IN [ticker |-> ev.ticker, trade_date |-> ev.trade_date,
        metric_type |-> ev.metric_type, metric_value |-> ev.metric_value,
        under_1w |-> ev.under_1w, under_3m |-> ev.under_3m, under_1y |-> ev.under_1y,
        combo |-> ev.combo, is_strong |-> ev.is_strong, category |-> ev.category,
        streak_days |-> streak_days]

build_signal_state(ev, previous) ==
    LET streak_days ==
          IF has_signal(ev)
          THEN IF /\ previous # None
                  /\ _is_same_signal(previous, ev)
                  /\ _is_previous_business_day(previous.trade_date, ev.trade_date)
               THEN previous.streak_days + 1
               ELSE 1
          ELSE 0
    IN [ticker |-> ev.ticker, trade_date |-> ev.trade_date,
        metric_type |-> ev.metric_type, metric_value |-> ev.metric_value,
        under_1w |-> ev.under_1w, under_3m |-> ev.under_3m, under_1y |-> ev.under_1y,
        combo |-> ev.combo, is_strong |-> ev.is_strong, category |-> ev.category,
        streak_days |-> streak_days]

\* An ISO-8601 timestamp is [clock, offset]: the wall-clock hour it spells and
\* its UTC offset in hours, NoValue when the text carries no offset.
_parse_iso_datetime(value) ==
    IF value.offset = NoValue THEN value.clock ELSE value.clock - value.offset

\* variant of _is_recent: ">" instead of ">="
_is_recent_strict(sent_at, threshold) == _parse_iso_datetime(sent_at) > threshold

_is_recent(sent_at, threshold) == _parse_iso_datetime(sent_at) >= threshold

\* A condition key "PREFIX:rest" is [prefix, rest]; this is split(":", 1)[0].
_metric_prefix(condition_key) == condition_key.prefix

CooldownBlocked == [raised |-> FALSE, should_send |-> FALSE, reason |-> "cooldown"]
CooldownEscalated == [raised |-> FALSE, should_send |-> TRUE, reason |-> "normal_to_strong"]
CooldownAllowed == [raised |-> FALSE, should_send |-> TRUE, reason |-> "allowed"]
CooldownValueError == [raised |-> TRUE, should_send |-> FALSE, reason |-> "ValueError"]

\* A for loop over the entries that returns at the first entry passing its
\* filters: the index of that entry, 0 when the loop runs to its end.
RECURSIVE FirstIndex(_, _)
FirstIndex(passes, i) ==
    IF i > Len(passes) THEN 0
    ELSE IF passes[i] THEN i
    ELSE FirstIndex(passes, i + 1)

\* variant of evaluate_cooldown: one loop makes both tests on each entry, so
\* the first entry that passes either test decides
evaluate_cooldown_single_loop(now_iso, cooldown_hours, candidate_ticker, candidate_category, candidate_condition_key, candidate_is_strong, recent_entries) ==
    IF cooldown_hours <= 0 THEN CooldownValueError
    ELSE
      LET threshold == _parse_iso_datetime(now_iso) - cooldown_hours
          normalized_ticker == normalize_ticker(candidate_ticker)
          repeated(entry) ==
              /\ entry.ticker = normalized_ticker
              /\ entry.category = candidate_category
              /\ entry.condition_key = candidate_condition_key
              /\ _is_recent(entry.sent_at, threshold)
          escalates(entry) ==
              /\ entry.ticker = normalized_ticker
              /\ ~entry.is_strong
              /\ _metric_prefix(entry.condition_key) = _metric_prefix(candidate_condition_key)
              /\ _is_recent(entry.sent_at, threshold)
          first ==
              FirstIndex([i \in DOMAIN recent_entries |->
                            \/ repeated(recent_entries[i])
                            \/ candidate_is_strong /\ escalates(recent_entries[i])], 1)
      IN IF first = 0 THEN CooldownAllowed
         ELSE IF repeated(recent_entries[first]) THEN CooldownBlocked
         ELSE CooldownEscalated

\* variant of evaluate_cooldown: the escalation loop skips the non-strong entries
evaluate_cooldown_skip_normal(now_iso, cooldown_hours, candidate_ticker, candidate_category, candidate_condition_key, candidate_is_strong, recent_entries) ==
    IF cooldown_hours <= 0 THEN CooldownValueError
    ELSE
      LET threshold == _parse_iso_datetime(now_iso) - cooldown_hours
          normalized_ticker == normalize_ticker(candidate_ticker)
          repeated(entry) ==
              /\ entry.ticker = normalized_ticker
              /\ entry.category = candidate_category
              /\ entry.condition_key = candidate_condition_key
              /\ _is_recent(entry.sent_at, threshold)
          escalates(entry) ==
              /\ entry.ticker = normalized_ticker
              /\ entry.is_strong
              /\ _metric_prefix(entry.condition_key) = _metric_prefix(candidate_condition_key)
              /\ _is_recent(entry.sent_at, threshold)
          first_repeated ==
              FirstIndex([i \in DOMAIN recent_entries |-> repeated(recent_entries[i])], 1)
          first_escalating ==
              FirstIndex([i \in DOMAIN recent_entries |-> escalates(recent_entries[i])], 1)
      IN IF first_repeated # 0 THEN CooldownBlocked
         ELSE IF candidate_is_strong /\ first_escalating # 0 THEN CooldownEscalated
         ELSE CooldownAllowed

\* variant of evaluate_cooldown: the escalation loop runs before the exact-repeat loop
evaluate_cooldown_escalation_first(now_iso, cooldown_hours, candidate_ticker, candidate_category, candidate_condition_key, candidate_is_strong, recent_entries) ==
    IF cooldown_hours <= 0 THEN CooldownValueError
    ELSE
      LET threshold == _parse_iso_datetime(now_iso) - cooldown_hours
          normalized_ticker == normalize_ticker(candidate_ticker)
          repeated(entry) ==
              /\ entry.ticker = normalized_ticker
              /\ entry.category = candidate_category
              /\ entry.condition_key = candidate_condition_key
              /\ _is_recent(entry.sent_at, threshold)
          escalates(entry) ==
              /\ entry.ticker = normalized_ticker
              /\ ~entry.is_strong
              /\ _metric_prefix(entry.condition_key) = _metric_prefix(candidate_condition_key)
              /\ _is_recent(entry.sent_at, threshold)
          first_repeated ==
              FirstIndex([i \in DOMAIN recent_entries |-> repeated(recent_entries[i])], 1)
          first_escalating ==
              FirstIndex([i \in DOMAIN recent_entries |-> escalates(recent_entries[i])], 1)
      IN IF candidate_is_strong /\ first_escalating # 0 THEN CooldownEscalated
         ELSE IF first_repeated # 0 THEN CooldownBlocked
         ELSE CooldownAllowed

\* The two loops run one after the other, each over recent_entries in list order.
evaluate_cooldown(now_iso, cooldown_hours, candidate_ticker, candidate_category, candidate_condition_key, candidate_is_strong, recent_entries) ==
    IF cooldown_hours <= 0 THEN CooldownValueError
    ELSE
      LET threshold == _parse_iso_datetime(now_iso) - cooldown_hours
          normalized_ticker == normalize_ticker(candidate_ticker)
          repeated(entry) ==
              /\ entry.ticker = normalized_ticker
              /\ entry.category = candidate_category
              /\ entry.condition_key = candidate_condition_key
              /\ _is_recent(entry.sent_at, threshold)
          escalates(entry) ==
              /\ entry.ticker = normalized_ticker
              /\ ~entry.is_strong
              /\ _metric_prefix(entry.condition_key) = _metric_prefix(candidate_condition_key)
              /\ _is_recent(entry.sent_at, threshold)
          first_repeated ==
              FirstIndex([i \in DOMAIN recent_entries |-> repeated(recent_entries[i])], 1)
          first_escalating ==
              FirstIndex([i \in DOMAIN recent_entries |-> escalates(recent_entries[i])], 1)
      IN IF first_repeated # 0 THEN CooldownBlocked
         ELSE IF candidate_is_strong /\ first_escalating # 0 THEN CooldownEscalated
         ELSE CooldownAllowed

\* ------------------------------------------------------- notification.py
\* "{value:.2f}": the text of a number is its count of hundredths; "N/A" is NoValue
FmtValue(value) == IF value = NoValue THEN NoValue ELSE 100 * value
FmtMedian(median) == IF median = NoValue THEN NoValue ELSE 50 * median

\* sha1 of a text: one digest per text
Sha1(text) == <<"sha1", text>>

payload_hash(message) == Sha1(message.body)

format_signal_message(ticker, company_name, state, metric_value, medians) ==
    LET normalized_ticker == normalize_ticker(ticker)
    IN [ticker |-> normalized_ticker,
        category |-> state.category,
        condition_key |-> [prefix |-> state.metric_type, rest |-> <<state.combo>>],
        body |-> [head |-> state.category, name |-> company_name, ticker |-> normalized_ticker,
                  detail |-> <<state.metric_type, FmtValue(metric_value),
                               FmtMedian(medians.median_1w), FmtMedian(medians.median_3m),
                               FmtMedian(medians.median_1y), state.streak_days>>,
                  items |-> <<state.combo>>],
        is_strong |-> state.is_strong]

EarningsCategories == {"WEEKLY_EARNINGS", "TOMORROW_EARNINGS"}

\* Result: raised (ValueError) and, when not raised, the NotificationMessage.
\* The text of a date is ToString of its day ordinal.
format_earnings_message(ticker, company_name, earnings_date, earnings_time, category) ==
    IF category \notin EarningsCategories THEN [raised |-> TRUE, value |-> None]
    ELSE
      LET normalized_ticker == normalize_ticker(ticker)
          time_label == IF earnings_time = Null \/ earnings_time = "" THEN "TBD" ELSE earnings_time
      IN [raised |-> FALSE,
          value |-> [ticker |-> normalized_ticker,
                     category |-> category,
                     condition_key |-> [prefix |-> "EARNINGS", rest |-> <<ToString(earnings_date)>>],
                     body |-> [head |-> category, name |-> company_name,
                               ticker |-> normalized_ticker,
                               detail |-> <<ToString(earnings_date), time_label>>,
                               items |-> <<>>],
                     is_strong |-> FALSE]]

\* alphabetical rank of the field names, the order sorted() puts them in
FieldRank(field) ==
    CASE field = "close_price" -> 1
      [] field = "earnings_date" -> 2
      [] field = "eps_forecast" -> 3
      [] field = "market_data_source" -> 4
      [] field = "sales_forecast" -> 5
      [] OTHER -> 6

RECURSIVE SortedFields(_)
SortedFields(fields) ==
    IF fields = {} THEN <<>>
    ELSE LET first == CHOOSE f \in fields : \A g \in fields : FieldRank(f) <= FieldRank(g)
         IN <<first>> \o SortedFields(fields \ {first})

\* str.strip() on the field names of the model: the padded spellings lose their
\* blanks, a name of blanks only becomes "", every other name is left as it is
strip(field) ==
    CASE field = " close_price " -> "close_price"
      [] field = " " -> ""
      [] OTHER -> field

\* variant of format_data_unknown_message: the fields are listed in the order
\* of their first occurrence instead of sorted
format_data_unknown_message_unsorted(ticker, company_name, missing_fields, context) ==
    LET normalized_ticker == normalize_ticker(ticker)
        kept == { strip(missing_fields[i]) :
                    i \in { j \in DOMAIN missing_fields : strip(missing_fields[j]) # "" } }
        first(f) == CHOOSE i \in DOMAIN missing_fields :
                      /\ strip(missing_fields[i]) = f
                      /\ \A j \in 1..(i - 1) : strip(missing_fields[j]) # f
        listed == CHOOSE s \in [1..Cardinality(kept) -> kept] :
                    \A a, b \in 1..Cardinality(kept) : a < b => first(s[a]) < first(s[b])
        sorted_fields == IF kept = {} THEN <<"unknown">> ELSE listed
    IN [ticker |-> normalized_ticker,
        category |-> "DATA_UNKNOWN",
        condition_key |-> [prefix |-> "UNKNOWN", rest |-> sorted_fields],
        body |-> [head |-> "DATA_UNKNOWN", name |-> company_name, ticker |-> normalized_ticker,
                  detail |-> <<context>>, items |-> sorted_fields],
        is_strong |-> FALSE]

\* sorted({field.strip() for field in missing_fields if field.strip()})
format_data_unknown_message(ticker, company_name, missing_fields, context) ==
    LET normalized_ticker == normalize_ticker(ticker)
        kept == { strip(missing_fields[i]) :
                    i \in { j \in DOMAIN missing_fields : strip(missing_fields[j]) # "" } }
        sorted_fields == IF kept = {} THEN <<"unknown">> ELSE SortedFields(kept)
    IN [ticker |-> normalized_ticker,
        category |-> "DATA_UNKNOWN",
        condition_key |-> [prefix |-> "UNKNOWN", rest |-> sorted_fields],
        body |-> [head |-> "DATA_UNKNOWN", name |-> company_name, ticker |-> normalized_ticker,
                  detail |-> <<context>>, items |-> sorted_fields],
        is_strong |-> FALSE]

\* ------------------------------------------------------------ metrics.py
\* close_price / forecast: the snapshots drawn hold forecasts that divide the price
Quotient(numerator, denominator) == numerator \div denominator

\* variant of build_daily_metric: PSR is always close_price / sales_forecast
build_daily_metric_without_market_cap(ticker, trade_date, metric_type, snapshot) ==
    LET per_value ==
          IF snapshot.close_price # NoValue
             /\ snapshot.eps_forecast # NoValue /\ snapshot.eps_forecast > 0
          THEN Quotient(snapshot.close_price, snapshot.eps_forecast)
          ELSE NoValue
        psr_value ==
          IF snapshot.close_price # NoValue
             /\ snapshot.sales_forecast # NoValue /\ snapshot.sales_forecast > 0
          THEN Quotient(snapshot.close_price, snapshot.sales_forecast)
          ELSE NoValue
    IN [ticker |-> normalize_ticker(ticker), trade_date |-> trade_date,
        close_price |-> snapshot.close_price, eps_forecast |-> snapshot.eps_forecast,
        sales_forecast |-> snapshot.sales_forecast,
        per_value |-> per_value, psr_value |-> psr_value]

build_daily_metric(ticker, trade_date, metric_type, snapshot) ==
    LET per_value ==
          IF snapshot.close_price # NoValue
             /\ snapshot.eps_forecast # NoValue /\ snapshot.eps_forecast > 0
          THEN Quotient(snapshot.close_price, snapshot.eps_forecast)
          ELSE NoValue
        psr_value ==
          IF snapshot.close_price # NoValue
             /\ snapshot.sales_forecast # NoValue /\ snapshot.sales_forecast > 0
          THEN IF snapshot.market_cap # NoValue /\ snapshot.market_cap > 0
               THEN Quotient(snapshot.market_cap, snapshot.sales_forecast)
               ELSE Quotient(snapshot.close_price, snapshot.sales_forecast)
          ELSE NoValue
    IN [ticker |-> normalize_ticker(ticker), trade_date |-> trade_date,
        close_price |-> snapshot.close_price, eps_forecast |-> snapshot.eps_forecast,
        sales_forecast |-> snapshot.sales_forecast,
        per_value |-> per_value, psr_value |-> psr_value]

\* variant of DailyMetric.missing_fields: a missing close_price is not reported
DailyMetric_missing_fields_without_close_price(metric, metric_type) ==
    (IF metric_type = "PER" /\ (metric.eps_forecast = NoValue \/ metric.eps_forecast <= 0)
     THEN <<"eps_forecast">> ELSE <<>>)
    \o (IF metric_type = "PSR" /\ (metric.sales_forecast = NoValue \/ metric.sales_forecast <= 0)
        THEN <<"sales_forecast">> ELSE <<>>)

\* variant of DailyMetric_missing_fields: a forecast <= 0 is not missing
DailyMetric_missing_fields_null_only(metric, metric_type) ==
    (IF metric.close_price = NoValue THEN <<"close_price">> ELSE <<>>)
    \o (IF metric_type = "PER" /\ metric.eps_forecast = NoValue
        THEN <<"eps_forecast">> ELSE <<>>)
    \o (IF metric_type = "PSR" /\ metric.sales_forecast = NoValue
        THEN <<"sales_forecast">> ELSE <<>>)

DailyMetric_missing_fields(metric, metric_type) ==
    (IF metric.close_price = NoValue THEN <<"close_price">> ELSE <<>>)
    \o (IF metric_type = "PER" /\ (metric.eps_forecast = NoValue \/ metric.eps_forecast <= 0)
        THEN <<"eps_forecast">> ELSE <<>>)
    \o (IF metric_type = "PSR" /\ (metric.sales_forecast = NoValue \/ metric.sales_forecast <= 0)
        THEN <<"sales_forecast">> ELSE <<>>)

\* sorted(data), as statistics.median sorts its argument
RECURSIVE SortedAscending(_)
SortedAscending(data) ==
    IF data = <<>> THEN <<>>
    ELSE LET i == CHOOSE i \in DOMAIN data : \A j \in DOMAIN data : data[i] <= data[j]
         IN <<data[i]>> \o SortedAscending(SubSeq(data, 1, i - 1) \o SubSeq(data, i + 1, Len(data)))

\* statistics.median, doubled: the middle value, or the mean of the two middle values
DoubledMedian(data) ==
    LET sorted == SortedAscending(data)
        n == Len(sorted)
    IN IF n % 2 = 1 THEN 2 * sorted[(n + 1) \div 2]
       ELSE sorted[n \div 2] + sorted[n \div 2 + 1]

\* variant of _window_median: the median of every value, not of the first window_size
_window_median_of_all_values(values, window_size) ==
    IF window_size <= 0 THEN [raised |-> TRUE, value |-> NoValue]
    ELSE IF Len(values) < window_size THEN [raised |-> FALSE, value |-> NoValue]
    ELSE [raised |-> FALSE, value |-> DoubledMedian(values)]

\* values[:window_size] for window_size >= 0
Take(seq, limit) == SubSeq(seq, 1, IF Len(seq) < limit THEN Len(seq) ELSE limit)

\* variant of _window_median: a short history gives the median of the values it has
_window_median_of_available(values, window_size) ==
    IF window_size <= 0 THEN [raised |-> TRUE, value |-> NoValue]
    ELSE IF Len(values) = 0 THEN [raised |-> FALSE, value |-> NoValue]
    ELSE [raised |-> FALSE, value |-> DoubledMedian(Take(values, window_size))]

_window_median(values, window_size) ==
    IF window_size <= 0 THEN [raised |-> TRUE, value |-> NoValue]
    ELSE IF Len(values) < window_size THEN [raised |-> FALSE, value |-> NoValue]
    ELSE [raised |-> FALSE, value |-> DoubledMedian(Take(values, window_size))]

\* Result: raised (ValueError) and, when not raised, the MetricMedians value.
calculate_metric_medians(ticker, trade_date, metric_type, latest_first_metrics, window_1w_days, window_3m_days, window_1y_days) ==
    IF ~(window_1w_days <= window_3m_days /\ window_3m_days <= window_1y_days)
    THEN [raised |-> TRUE, value |-> None]
    ELSE
      LET picked == [i \in DOMAIN latest_first_metrics |->
                       IF metric_type = "PER" THEN latest_first_metrics[i].per_value
                       ELSE latest_first_metrics[i].psr_value]
          values == SelectSeq(picked, LAMBDA v : v # NoValue)
          median_1w == _window_median(values, window_1w_days)
          median_3m == _window_median(values, window_3m_days)
          median_1y == _window_median(values, window_1y_days)
      IN IF median_1w.raised \/ median_3m.raised \/ median_1y.raised
         THEN [raised |-> TRUE, value |-> None]
         ELSE [raised |-> FALSE,
               value |-> [ticker |-> normalize_ticker(ticker), trade_date |-> trade_date,
                          median_1w |-> median_1w.value, median_3m |-> median_3m.value,
                          median_1y |-> median_1y.value,
                          source_metric_type |-> metric_type]]

\* -------------------------------------------------------- market_data.py
\* source.fetch_snapshot(ticker) of a source that returns a snapshot
\* ("snapshot"), raises MarketDataFetchError or raises another Exception.
\* Result: raised (Null, or the class raised), value (the snapshot), reason.
Source_fetch_snapshot(source, ticker) ==
    IF source.outcome = "snapshot"
    THEN [raised |-> Null, value |-> [ticker |-> ticker, source |-> source.source_name],
          reason |-> Null]
    ELSE [raised |-> source.outcome, value |-> None,
          reason |-> <<source.source_name, ticker, source.outcome>>]

IdleFetch ==
    [status |-> "idle", ticker |-> Null, sources |-> <<>>, index |-> 1, calls |-> <<>>,
     errors |-> <<>>, snapshot |-> None, raised |-> Null]

\* lines 101-104: normalize the ticker, raise when the source list is empty
FallbackMarketDataSource_start(sources, ticker) ==
    IF sources = <<>>
    THEN [IdleFetch EXCEPT !.status = "raised", !.ticker = normalize_ticker(ticker),
                           !.errors = <<"source list is empty">>,
                           !.raised = "MarketDataUnavailableError"]
    ELSE [IdleFetch EXCEPT !.status = "running", !.ticker = normalize_ticker(ticker),
                           !.sources = sources]

\* variant of FallbackMarketDataSource_try: only MarketDataFetchError is caught
FallbackMarketDataSource_try_fetch_error_only(call, r) ==
    IF r.raised = Null
    THEN [call EXCEPT !.status = "returned", !.snapshot = r.value,
                      !.calls = Append(@, call.index)]
    ELSE IF r.raised = "MarketDataFetchError"
    THEN [call EXCEPT !.errors = Append(@, r.reason), !.calls = Append(@, call.index),
                      !.index = @ + 1]
    ELSE [call EXCEPT !.status = "raised", !.calls = Append(@, call.index),
                      !.raised = r.raised]

\* variant of FallbackMarketDataSource_try: the reason of an unexpected
\* exception is not appended to errors
FallbackMarketDataSource_try_unexpected_unrecorded(call, r) ==
    IF r.raised = Null
    THEN [call EXCEPT !.status = "returned", !.snapshot = r.value,
                      !.calls = Append(@, call.index)]
    ELSE IF r.raised = "MarketDataFetchError"
    THEN [call EXCEPT !.errors = Append(@, r.reason), !.calls = Append(@, call.index),
                      !.index = @ + 1]
    ELSE [call EXCEPT !.calls = Append(@, call.index), !.index = @ + 1]

\* lines 106-118: one iteration of the loop over the sources, for the result
\* (r) of source.fetch_snapshot(normalized_ticker)
FallbackMarketDataSource_try(call, r) ==
    IF r.raised = Null
    THEN [call EXCEPT !.status = "returned", !.snapshot = r.value,
                      !.calls = Append(@, call.index)]
    ELSE IF r.raised = "MarketDataFetchError"
    THEN [call EXCEPT !.errors = Append(@, r.reason), !.calls = Append(@, call.index),
                      !.index = @ + 1]
    ELSE [call EXCEPT !.errors = Append(@, r.reason), !.calls = Append(@, call.index),
                      !.index = @ + 1]

\* ---------------------------------------------------------- watchlist.py
\* storage/firestore_watchlist_repository.py: the collection is keyed by ticker

\* two callers of the service, each making one call
Callers == {1, 2}

\* a WatchlistItem document; name tells the documents of one ticker apart
WatchlistDoc(ticker, name) == [ticker |-> ticker, name |-> name]

\* snapshot.exists of the document of the ticker
WatchlistExists(items, ticker) == \E item \in items : item.ticker = ticker

\* FirestoreWatchlistRepository.get
WatchlistRepository_get(items, ticker) ==
    IF WatchlistExists(items, ticker) THEN CHOOSE item \in items : item.ticker = ticker
    ELSE None

\* FirestoreWatchlistRepository.count
WatchlistRepository_count(items) == Cardinality(items)

\* the body of _transactional_create, run as one transaction.
\* Result: result (the CreateResult) and items (the collection afterwards).
_transactional_create(items, item, max_items) ==
    IF WatchlistExists(items, item.ticker) THEN [result |-> "DUPLICATE", items |-> items]
    ELSE IF WatchlistRepository_count(items) >= max_items
    THEN [result |-> "LIMIT_EXCEEDED", items |-> items]
    ELSE [result |-> "CREATED", items |-> items \cup {item}]

\* doc_ref.create(...): raises AlreadyExists when the document exists.
\* Result: raised and items.
WatchlistRepository_create(items, item) ==
    IF WatchlistExists(items, item.ticker) THEN [raised |-> TRUE, items |-> items]
    ELSE [raised |-> FALSE, items |-> items \cup {item}]

\* FirestoreWatchlistRepository.delete. Result: deleted (the bool returned) and items.
WatchlistRepository_delete(items, ticker) ==
    IF WatchlistExists(items, ticker)
    THEN [deleted |-> TRUE, items |-> { item \in items : item.ticker # ticker }]
    ELSE [deleted |-> FALSE, items |-> items]

\* WatchlistHistoryRecord.create, acted_at being the clock of the caller
WatchlistHistoryRecord(ticker, action, caller) ==
    [ticker |-> ticker, action |-> action, acted_at |-> caller]

\* a WatchlistService call that has not started
IdleCall(transactional) ==
    [op |-> "none", ticker |-> Null, item |-> None, faults |-> {}, pc |-> "idle",
     transactional |-> transactional, existing |-> None, create_result |-> Null,
     history_failed |-> FALSE, rollback_failed |-> FALSE, outcome |-> Null,
     before |-> {}, after |-> {}, interleaved |-> FALSE]

\* the call returns or raises: outcome is "returned" or the exception class
FinishCall(call, outcome, items) == [call EXCEPT !.pc = "done", !.outcome = outcome, !.after = items]

\* add_item, lines 253-259: what follows the CreateResult of try_create
add_item_after_create(call, create_result, items) ==
    CASE create_result = "DUPLICATE" ->
           FinishCall([call EXCEPT !.create_result = create_result],
                      "WatchlistAlreadyExistsError", items)
      [] create_result = "LIMIT_EXCEEDED" ->
           FinishCall([call EXCEPT !.create_result = create_result],
                      "WatchlistLimitExceededError", items)
      [] OTHER -> [call EXCEPT !.create_result = create_result, !.pc = "record_history"]

\* variant of add_item_rollback: the item added is left in place
add_item_rollback_without_delete(call, items) ==
    [call |-> FinishCall(call, "WatchlistPersistenceError", items), items |-> items]

\* add_item, lines 267-279: the history append raised; delete the item again.
\* Result: call (the finished call) and items.
add_item_rollback(call, items) ==
    IF "rollback" \in call.faults
    THEN [call |-> FinishCall([call EXCEPT !.rollback_failed = TRUE],
                              "WatchlistPersistenceError", items),
          items |-> items]
    ELSE LET r == WatchlistRepository_delete(items, call.ticker)
         IN [call |-> FinishCall([call EXCEPT !.rollback_failed = ~r.deleted],
                                 "WatchlistPersistenceError", r.items),
             items |-> r.items]

\* delete_item, lines 356-363: the history append raised; create the item again.
\* Result: call (the finished call) and items.
delete_item_rollback(call, items) ==
    IF "rollback" \in call.faults
    THEN [call |-> FinishCall([call EXCEPT !.rollback_failed = TRUE],
                              "WatchlistPersistenceError", items),
          items |-> items]
    ELSE LET r == WatchlistRepository_create(items, call.existing)
         IN [call |-> FinishCall([call EXCEPT !.rollback_failed = r.raised],
                                 "WatchlistPersistenceError", r.items),
             items |-> r.items]

\* ------------------------------------------- storage/firestore_migration.py
\* A document path is the tuple of its segments; a store is the set of the
\* paths of its documents (no decision reads the data of a document).
ALL_COLLECTIONS ==
    <<"watchlist", "watchlist_history", "daily_metrics", "metric_medians", "signal_state",
      "earnings_calendar", "notification_log">>

META_SCHEMA_DOC_PATH == <<"_meta", "schema">>
MIGRATION_DOC_PATH == <<"_meta", "schema", "migrations", "0001_initial">>
MIGRATION_LOCK_DOC_PATH == <<"_meta", "schema", "migrations", "0001_initial_lock">>
RegistryPath(collection_name) == <<"_meta", "schema", "collections", collection_name>>

\* variant of build_initial_migration_operations: the completion marker first
build_initial_migration_operations_marker_first ==
    <<MIGRATION_DOC_PATH, META_SCHEMA_DOC_PATH>>
    \o [i \in DOMAIN ALL_COLLECTIONS |-> RegistryPath(ALL_COLLECTIONS[i])]

\* the paths of the operations, in the order they are applied
build_initial_migration_operations ==
    <<META_SCHEMA_DOC_PATH>>
    \o [i \in DOMAIN ALL_COLLECTIONS |-> RegistryPath(ALL_COLLECTIONS[i])]
    \o <<MIGRATION_DOC_PATH>>

\* DocumentStore.get_document(path) is not None
DocumentStore_exists(docs, path) == path \in docs

\* DocumentStore.create_document: atomic; False when the document exists.
\* Result: created and docs.
DocumentStore_create_document(docs, path) ==
    IF path \in docs THEN [created |-> FALSE, docs |-> docs]
    ELSE [created |-> TRUE, docs |-> docs \cup {path}]

DocumentStore_set_document(docs, path) == docs \cup {path}

\* DocumentStore.delete_document: a no-op when the document does not exist
DocumentStore_delete_document(docs, path) == docs \ {path}

\* an apply_initial_migration invocation that has not started.
\* result is "True", "False" or the exception raised; index is the position
\* in the operations; fail_at the operation whose set_document raises (0: none)
IdleMigrator ==
    [pc |-> "idle", result |-> Null, index |-> 1, fail_at |-> 0, written |-> 0,
     acquired |-> FALSE, saw_marker |-> FALSE, saw_lock |-> FALSE]

\* lines 88-90: the first look at the marker
apply_initial_migration_start(m, docs) ==
    IF DocumentStore_exists(docs, MIGRATION_DOC_PATH)
    THEN [m EXCEPT !.pc = "done", !.result = "False", !.saw_marker = TRUE]
    ELSE [m EXCEPT !.pc = "create_lock"]

\* lines 92-101: create the lock document. Result: m and docs.
apply_initial_migration_lock(m, docs) ==
    LET r == DocumentStore_create_document(docs, MIGRATION_LOCK_DOC_PATH)
    IN IF r.created
       THEN [m |-> [m EXCEPT !.pc = "recheck", !.acquired = TRUE], docs |-> r.docs]
       ELSE [m |-> [m EXCEPT !.pc = "done", !.result = "False", !.saw_lock = TRUE],
             docs |-> r.docs]

\* variant of apply_initial_migration_recheck: the marker is not looked at again
apply_initial_migration_recheck_skipped(m, docs, fail_at) ==
    [m EXCEPT !.pc = "write", !.fail_at = fail_at]

\* lines 103-106: the second look at the marker, under the lock
apply_initial_migration_recheck(m, docs, fail_at) ==
    IF DocumentStore_exists(docs, MIGRATION_DOC_PATH)
    THEN [m EXCEPT !.pc = "release", !.result = "False", !.saw_marker = TRUE]
    ELSE [m EXCEPT !.pc = "write", !.fail_at = fail_at]

\* lines 107-109: one store.set_document of the loop, or the return True that
\* follows the last one. Result: m and docs.
apply_initial_migration_write(m, docs, ops) ==
    IF m.index > Len(ops)
    THEN [m |-> [m EXCEPT !.pc = "release", !.result = "True"], docs |-> docs]
    ELSE IF m.index = m.fail_at
    THEN [m |-> [m EXCEPT !.pc = "release", !.result = "Exception"], docs |-> docs]
    ELSE [m |-> [m EXCEPT !.index = @ + 1, !.written = @ + 1],
          docs |-> DocumentStore_set_document(docs, ops[m.index])]

\* lines 110-111: finally, delete the lock document. Result: m and docs.
apply_initial_migration_release(m, docs) ==
    [m |-> [m EXCEPT !.pc = "done", !.acquired = FALSE],
     docs |-> DocumentStore_delete_document(docs, MIGRATION_LOCK_DOC_PATH)]

\* ----------------------------------------------------------- earnings.py
\* the order of the ticker texts of the model
TickerRank(ticker) ==
    CASE ticker = "T1" -> 1
      [] ticker = "T2" -> 2
      [] OTHER -> 3

\* sorted(selected, key=...): stable, the first of the rows with the least key first
RECURSIVE SortedByKey(_, _)
SortedByKey(entries, keys) ==
    IF entries = <<>> THEN <<>>
    ELSE LET least == { i \in DOMAIN entries : \A j \in DOMAIN entries : keys[i] <= keys[j] }
             i == CHOOSE i \in least : \A j \in least : i <= j
             without(seq) == SubSeq(seq, 1, i - 1) \o SubSeq(seq, i + 1, Len(seq))
         IN <<entries[i]>> \o SortedByKey(without(entries), without(keys))

\* key=(earnings_date, ticker)
DateTickerKey(entry) == 10 * entry.earnings_date + TickerRank(entry.ticker)

\* variant of select_next_week_entries: the seven days that start a week after today
select_next_week_entries_rolling(entries, today) ==
    LET next_monday == today + 7
        next_sunday == next_monday + 6
        selected == SelectSeq(entries, LAMBDA entry : /\ next_monday <= entry.earnings_date
                                                      /\ entry.earnings_date <= next_sunday)
    IN SortedByKey(selected, [i \in DOMAIN selected |-> DateTickerKey(selected[i])])

select_next_week_entries(entries, today) ==
    LET weekday == Weekday(today)
        current_monday == today - weekday
        next_monday == current_monday + 7
        next_sunday == next_monday + 6
        selected == SelectSeq(entries, LAMBDA entry : /\ next_monday <= entry.earnings_date
                                                      /\ entry.earnings_date <= next_sunday)
    IN SortedByKey(selected, [i \in DOMAIN selected |-> DateTickerKey(selected[i])])

select_tomorrow_entries(entries, today) ==
    LET tomorrow == today + 1
        selected == SelectSeq(entries, LAMBDA entry : entry.earnings_date = tomorrow)
    IN SortedByKey(selected, [i \in DOMAIN selected |-> TickerRank(selected[i].ticker)])

\* ------------------------- firestore_*_repository.py (one document per doc id)
\* rows.sort(key=trade_date, reverse=True)
RECURSIVE LatestFirst(_)
LatestFirst(rows) ==
    IF rows = {} THEN <<>>
    ELSE LET latest == CHOOSE r \in rows : \A o \in rows : o.trade_date <= r.trade_date
         IN <<latest>> \o LatestFirst(rows \ {latest})

\* document("TICKER|trade_date").set(..., merge=False)
DailyMetrics_upsert(rows, metric) ==
    { r \in rows : ~(r.ticker = metric.ticker /\ r.trade_date = metric.trade_date) } \cup {metric}

DailyMetrics_list_recent(rows, ticker, limit) ==
    Take(LatestFirst({ r \in rows : r.ticker = normalize_ticker(ticker) }), limit)

MetricMedians_upsert(rows, medians) ==
    { r \in rows : ~(r.ticker = medians.ticker /\ r.trade_date = medians.trade_date) } \cup {medians}

SignalState_upsert(rows, state) ==
    { r \in rows : ~(r.ticker = state.ticker /\ r.trade_date = state.trade_date) } \cup {state}

\* variant of SignalState_get_latest: the sort is ascending
SignalState_get_latest_ascending(rows, ticker) ==
    LET states == LatestFirst({ r \in rows : r.ticker = normalize_ticker(ticker) })
    IN IF states = <<>> THEN None ELSE states[Len(states)]

SignalState_get_latest(rows, ticker) ==
    LET states == LatestFirst({ r \in rows : r.ticker = normalize_ticker(ticker) })
    IN IF states = <<>> THEN None ELSE states[1]

\* ------------------------------ firestore_notification_log_repository.py
\* order_by("sent_at", DESCENDING) compares the stored texts: clock first, then offset
SentAtKey(entry) == 100 * entry.sent_at.clock + (IF entry.sent_at.offset = NoValue THEN 0 ELSE 1 + entry.sent_at.offset)

\* the entry with the greatest sent_at text (the least negated key) comes first
RECURSIVE NewestFirst(_)
NewestFirst(entries) ==
    IF entries = {} THEN <<>>
    ELSE LET keys == { 0 - SentAtKey(e) : e \in entries }
             top == CHOOSE k \in keys : \A j \in keys : k <= j
             newest == CHOOSE e \in entries : 0 - SentAtKey(e) = top
         IN <<newest>> \o NewestFirst(entries \ {newest})

\* limit of the list_recent call of _dispatch_with_cooldown
RecentLogLimit == 100

NotificationLog_list_recent(log, ticker, limit) ==
    Take(NewestFirst({ e \in log : e.ticker = normalize_ticker(ticker) }), limit)

\* document(entry_id).set(..., merge=False): one document per entry_id
NotificationLog_append(log, entry) ==
    { e \in log : e.entry_id # entry.entry_id } \cup {entry}

\* ----------------------------------------------------------- pipeline.py
\* variant of _notification_id: sent_at is not part of the id
_notification_id_without_sent_at(message, channel, sent_at) ==
    Sha1(<<message.ticker, message.category, message.condition_key, channel>>)

_notification_id(message, channel, sent_at) ==
    Sha1(<<message.ticker, message.category, message.condition_key, channel, sent_at>>)

\* variant of _dispatch_with_cooldown: the entry is appended before the send
_dispatch_with_cooldown_log_before_send(message, ticker, is_strong, log, sent_bodies, cooldown_hours, now_iso, channel, faults) ==
    LET failed == [log |-> log, outbox |-> sent_bodies, ret |-> <<0, 0>>, raised |-> TRUE,
                   decision |-> None, send_called |-> FALSE]
    IN IF "log_list" \in faults THEN failed
       ELSE
         LET recent == NotificationLog_list_recent(log, ticker, RecentLogLimit)
             decision == evaluate_cooldown(now_iso, cooldown_hours, ticker, message.category,
                                           message.condition_key, is_strong, recent)
         IN IF decision.raised THEN [failed EXCEPT !.decision = decision]
            ELSE IF ~decision.should_send
            THEN [log |-> log, outbox |-> sent_bodies, ret |-> <<0, 1>>, raised |-> FALSE,
                  decision |-> decision, send_called |-> FALSE]
            ELSE
              LET log_entry == [entry_id |-> _notification_id(message, channel, now_iso),
                                ticker |-> message.ticker,
                                category |-> message.category,
                                condition_key |-> message.condition_key,
                                sent_at |-> now_iso,
                                channel |-> channel,
                                payload_hash |-> payload_hash(message),
                                is_strong |-> is_strong]
                  delivered == sent_bodies \cup {message.body}
              IN IF "log_append" \in faults
                 THEN [failed EXCEPT !.decision = decision]
                 ELSE IF "send" \in faults
                 THEN [failed EXCEPT !.log = NotificationLog_append(log, log_entry),
                                     !.decision = decision, !.send_called = TRUE]
                 ELSE [log |-> NotificationLog_append(log, log_entry), outbox |-> delivered,
                       ret |-> <<1, 0>>, raised |-> FALSE, decision |-> decision,
                       send_called |-> TRUE]

\* variant of _dispatch_with_cooldown: the entries stamped with the now of this run are not read
_dispatch_with_cooldown_stale_read(message, ticker, is_strong, log, sent_bodies, cooldown_hours, now_iso, channel, faults) ==
    LET failed == [log |-> log, outbox |-> sent_bodies, ret |-> <<0, 0>>, raised |-> TRUE,
                   decision |-> None, send_called |-> FALSE]
    IN IF "log_list" \in faults THEN failed
       ELSE
         LET recent == NotificationLog_list_recent({ e \in log : e.sent_at # now_iso },
                                                    ticker, RecentLogLimit)
             decision == evaluate_cooldown(now_iso, cooldown_hours, ticker, message.category,
                                           message.condition_key, is_strong, recent)
         IN IF decision.raised THEN [failed EXCEPT !.decision = decision]
            ELSE IF ~decision.should_send
            THEN [log |-> log, outbox |-> sent_bodies, ret |-> <<0, 1>>, raised |-> FALSE,
                  decision |-> decision, send_called |-> FALSE]
            ELSE IF "send" \in faults
            THEN [failed EXCEPT !.decision = decision, !.send_called = TRUE]
            ELSE
              LET log_entry == [entry_id |-> _notification_id(message, channel, now_iso),
                                ticker |-> message.ticker,
                                category |-> message.category,
                                condition_key |-> message.condition_key,
                                sent_at |-> now_iso,
                                channel |-> channel,
                                payload_hash |-> payload_hash(message),
                                is_strong |-> is_strong]
                  delivered == sent_bodies \cup {message.body}
              IN IF "log_append" \in faults
                 THEN [failed EXCEPT !.outbox = delivered, !.decision = decision,
                                     !.send_called = TRUE]
                 ELSE [log |-> NotificationLog_append(log, log_entry), outbox |-> delivered,
                       ret |-> <<1, 0>>, raised |-> FALSE, decision |-> decision,
                       send_called |-> TRUE]

\* What one call of _dispatch_with_cooldown does to the log and the sender.
\* faults is the set of collaborator calls that raise when this call makes them.
\* Result: log, outbox, ret (<<sent, skipped>>), raised, decision, send_called.
_dispatch_with_cooldown(message, ticker, is_strong, log, sent_bodies, cooldown_hours, now_iso, channel, faults) ==
    LET failed == [log |-> log, outbox |-> sent_bodies, ret |-> <<0, 0>>, raised |-> TRUE,
                   decision |-> None, send_called |-> FALSE]
    IN IF "log_list" \in faults THEN failed
       ELSE
         LET recent == NotificationLog_list_recent(log, ticker, RecentLogLimit)
             decision == evaluate_cooldown(now_iso, cooldown_hours, ticker, message.category,
                                           message.condition_key, is_strong, recent)
         IN IF decision.raised THEN [failed EXCEPT !.decision = decision]
            ELSE IF ~decision.should_send
            THEN [log |-> log, outbox |-> sent_bodies, ret |-> <<0, 1>>, raised |-> FALSE,
                  decision |-> decision, send_called |-> FALSE]
            ELSE IF "send" \in faults
            THEN [failed EXCEPT !.decision = decision, !.send_called = TRUE]
            ELSE
              LET log_entry == [entry_id |-> _notification_id(message, channel, now_iso),
                                ticker |-> message.ticker,
                                category |-> message.category,
                                condition_key |-> message.condition_key,
                                sent_at |-> now_iso,
                                channel |-> channel,
                                payload_hash |-> payload_hash(message),
                                is_strong |-> is_strong]
                  delivered == sent_bodies \cup {message.body}
              IN IF "log_append" \in faults
                 THEN [failed EXCEPT !.outbox = delivered, !.decision = decision,
                                     !.send_called = TRUE]
                 ELSE [log |-> NotificationLog_append(log, log_entry), outbox |-> delivered,
                       ret |-> <<1, 0>>, raised |-> FALSE, decision |-> decision,
                       send_called |-> TRUE]

PipelineResult(processed, sent, skipped, errors) ==
    [processed_tickers |-> processed, sent_notifications |-> sent,
     skipped_notifications |-> skipped, errors |-> errors]

PipelineResult_merge(self, other) ==
    PipelineResult(self.processed_tickers + other.processed_tickers,
                   self.sent_notifications + other.sent_notifications,
                   self.skipped_notifications + other.skipped_notifications,
                   self.errors + other.errors)

\* variant of _is_channel_enabled: every channel but OFF is enabled in every run
_is_channel_enabled_any_channel(item, channel) ==
    IF item.notify_channel = "OFF" THEN FALSE
    ELSE TRUE

\* channel texts of the model are already stripped and upper case
_is_channel_enabled(item, channel) ==
    IF item.notify_channel = "OFF" THEN FALSE
    ELSE IF channel = "DISCORD" THEN item.notify_channel \in {"DISCORD", "BOTH"}
    ELSE IF channel = "LINE" THEN item.notify_channel \in {"LINE", "BOTH"}
    ELSE TRUE

\* variant of _should_dispatch_for_timing: the test for NotifyTiming.OFF is missing
_should_dispatch_for_timing_off_passes(notify_timing, mode) ==
    IF mode = "ALL" THEN TRUE
    ELSE IF mode = "DAILY" THEN notify_timing = "IMMEDIATE"
    ELSE notify_timing = "AT_21"

_should_dispatch_for_timing(notify_timing, mode) ==
    IF notify_timing = "OFF" THEN FALSE
    ELSE IF mode = "ALL" THEN TRUE
    ELSE IF mode = "DAILY" THEN notify_timing = "IMMEDIATE"
    ELSE notify_timing = "AT_21"

\* What one call of _process_single_ticker does to the five stores (db).
\* faults is the set of collaborator calls that raise when made: "fetch_market_data"
\* is fetch_snapshot raising MarketDataError, "fetch" is it raising anything else.
\* Outcome: db, raised, result (the PipelineResult returned), state (the
\* SignalState handed to signal_state_repo.upsert and stored, or None).
\* The function is written as its successive steps, last step first.
RaisedOutcome(db, state) == [db |-> db, raised |-> TRUE, result |-> None, state |-> state]

\* the return statements that follow a call of _dispatch_with_cooldown (r)
ReturnAfterDispatch(r, errors, state, db) ==
    IF r.raised
    THEN RaisedOutcome([db EXCEPT !.notification_log = r.log, !.outbox = r.outbox], state)
    ELSE [db |-> [db EXCEPT !.notification_log = r.log, !.outbox = r.outbox],
          raised |-> FALSE,
          result |-> PipelineResult(1, r.ret[1], r.ret[2], errors),
          state |-> state]

\* lines 216-226, 246-256, 292-308: dispatch the message, return the counts
DispatchAndReturn(watch_item, message, is_strong, errors, state, faults, config, db) ==
    ReturnAfterDispatch(
        _dispatch_with_cooldown(message, watch_item.ticker, is_strong, db.notification_log,
                                db.outbox, config.cooldown_hours, config.now_iso,
                                config.channel, faults),
        errors, state, db)

\* lines 280-308: upsert the state, notify when it carries a category and a combo
PersistStateAndNotify(watch_item, medians, state, faults, config, db) ==
    IF "state_upsert" \in faults THEN RaisedOutcome(db, None)
    ELSE IF state.category # Null /\ state.combo # Null
    THEN DispatchAndReturn(watch_item,
                           format_signal_message(watch_item.ticker, watch_item.name, state,
                                                 state.metric_value, medians),
                           state.is_strong, 0, state, faults, config,
                           [db EXCEPT !.signal_states = SignalState_upsert(@, state)])
    ELSE [db |-> [db EXCEPT !.signal_states = SignalState_upsert(@, state)],
          raised |-> FALSE, result |-> PipelineResult(1, 0, 0, 0), state |-> state]

\* lines 278-279: read the previous state, build the new one
BuildState(watch_item, medians, ev, faults, config, db) ==
    IF "state_get" \in faults THEN RaisedOutcome(db, None)
    ELSE PersistStateAndNotify(
             watch_item, medians,
             build_signal_state(ev, SignalState_get_latest(db.signal_states, watch_item.ticker)),
             faults, config, db)

\* lines 268-277: upsert the medians, evaluate the signal
PersistMediansAndEvaluate(watch_item, metric_row, medians, faults, config, db) ==
    IF medians.raised \/ "medians_upsert" \in faults THEN RaisedOutcome(db, None)
    ELSE BuildState(
             watch_item, medians.value,
             evaluate_signal(watch_item.ticker, config.trade_date, watch_item.metric_type,
                             IF watch_item.metric_type = "PER" THEN metric_row.per_value
                             ELSE metric_row.psr_value,
                             medians.value),
             faults, config,
             [db EXCEPT !.metric_medians = MetricMedians_upsert(@, medians.value)])

\* lines 239-267: the data-unknown notification, or the medians of the recent metrics
CheckMissingAndComputeMedians(watch_item, metric_row, missing_fields, faults, config, db) ==
    IF missing_fields # <<>>
    THEN DispatchAndReturn(watch_item,
                           format_data_unknown_message(watch_item.ticker, watch_item.name,
                                                       missing_fields, "daily_metric"),
                           FALSE, 0, None, faults, config, db)
    ELSE IF "metrics_list" \in faults THEN RaisedOutcome(db, None)
    ELSE PersistMediansAndEvaluate(
             watch_item, metric_row,
             calculate_metric_medians(
                 watch_item.ticker, config.trade_date, watch_item.metric_type,
                 DailyMetrics_list_recent(db.daily_metrics, watch_item.ticker,
                                          config.window_1y_days),
                 config.window_1w_days, config.window_3m_days, config.window_1y_days),
             faults, config, db)

\* lines 234-238: upsert the metric row, collect the missing fields
PersistMetric(watch_item, snapshot, metric_row, faults, config, db) ==
    IF "metrics_upsert" \in faults THEN RaisedOutcome(db, None)
    ELSE CheckMissingAndComputeMedians(
             watch_item, metric_row,
             DailyMetric_missing_fields(metric_row, watch_item.metric_type)
                 \o (IF snapshot.earnings_date = Null THEN <<"earnings_date">> ELSE <<>>),
             faults, config,
             [db EXCEPT !.daily_metrics = DailyMetrics_upsert(@, metric_row)])

\* variant of _process_single_ticker: the MarketDataError branch returns errors=0
_process_single_ticker_fetch_not_errored(watch_item, snapshot, faults, config, db) ==
    IF "fetch" \in faults THEN RaisedOutcome(db, None)
    ELSE IF "fetch_market_data" \in faults
    THEN DispatchAndReturn(watch_item,
                           format_data_unknown_message(watch_item.ticker, watch_item.name,
                                                       <<"market_data_source">>,
                                                       "MarketDataError"),
                           FALSE, 0, None, faults, config, db)
    ELSE PersistMetric(watch_item, snapshot,
                       build_daily_metric(watch_item.ticker, config.trade_date,
                                          watch_item.metric_type, snapshot),
                       faults, config, db)

_process_single_ticker(watch_item, snapshot, faults, config, db) ==
    IF "fetch" \in faults THEN RaisedOutcome(db, None)
    ELSE IF "fetch_market_data" \in faults
    THEN DispatchAndReturn(watch_item,
                           format_data_unknown_message(watch_item.ticker, watch_item.name,
                                                       <<"market_data_source">>,
                                                       "MarketDataError"),
                           FALSE, 1, None, faults, config, db)
    ELSE PersistMetric(watch_item, snapshot,
                       build_daily_metric(watch_item.ticker, config.trade_date,
                                          watch_item.metric_type, snapshot),
                       faults, config, db)

\* variant of ticker_result: a ticker whose processing raised counts errors=1 only
ticker_result_unprocessed(outcome) ==
    IF outcome.raised THEN [raised |-> FALSE, value |-> PipelineResult(0, 0, 0, 1)]
    ELSE [raised |-> FALSE, value |-> outcome.result]

\* variant of ticker_result: the loop body has no try/except
ticker_result_uncaught(outcome) ==
    IF outcome.raised THEN [raised |-> TRUE, value |-> PipelineResult(0, 0, 0, 0)]
    ELSE [raised |-> FALSE, value |-> outcome.result]

\* the try/except around the _process_single_ticker call in run_daily_pipeline
ticker_result(outcome) ==
    IF outcome.raised THEN [raised |-> FALSE, value |-> PipelineResult(1, 0, 0, 1)]
    ELSE [raised |-> FALSE, value |-> outcome.result]

\* variant of watch_map_get: inactive items are kept in the map
watch_map_get_any(watchlist_items, ticker) ==
    LET listed == { i \in DOMAIN watchlist_items : watchlist_items[i].ticker = ticker }
    IN IF listed = {} THEN None
       ELSE watchlist_items[CHOOSE i \in listed : \A j \in listed : j <= i]

\* watch_map = {item.ticker: item for item in watchlist_items if item.is_active},
\* then watch_map.get(ticker): the last active item of the ticker, or None
watch_map_get(watchlist_items, ticker) ==
    LET active == { i \in DOMAIN watchlist_items : /\ watchlist_items[i].is_active
                                                   /\ watchlist_items[i].ticker = ticker }
    IN IF active = {} THEN None
       ELSE watchlist_items[CHOOSE i \in active : \A j \in active : j <= i]

\* the result.merge calls that follow the _dispatch_with_cooldown call (r) of
\* _run_earnings_pipeline: lines 352-354, and inside the except lines 355-357
EarningsReturnAfterDispatch(r, db) ==
    [db |-> [db EXCEPT !.notification_log = r.log, !.outbox = r.outbox],
     raised |-> r.raised,
     result |-> IF r.raised THEN PipelineResult(1, 0, 0, 1)
                ELSE PipelineResult(1, r.ret[1], r.ret[2], 0)]

\* lines 334-357: the try body of one entry of _run_earnings_pipeline, for the
\* message format_earnings_message returned
EarningsDispatch(entry, message, faults, config, db) ==
    IF message.raised
    THEN [db |-> db, raised |-> TRUE, result |-> PipelineResult(1, 0, 0, 1)]
    ELSE EarningsReturnAfterDispatch(
             _dispatch_with_cooldown(message.value, entry.ticker, FALSE, db.notification_log,
                                     db.outbox, config.cooldown_hours, config.now_iso,
                                     config.channel, faults),
             db)

_run_earnings_entry(entry, watch_item, faults, config, db) ==
    EarningsDispatch(entry,
                     format_earnings_message(entry.ticker, watch_item.name, entry.earnings_date,
                                             entry.earnings_time, config.category),
                     faults, config, db)

\* ------------------------------------------------------- initial values
IdleRun ==
    [pipeline |-> "none", status |-> "idle", config |-> None, watchlist_items |-> <<>>,
     entries |-> <<>>, index |-> 1, result |-> PipelineResult(0, 0, 0, 0), visited |-> <<>>]

NoHistory == [trade_dates |-> {}, increasing |-> TRUE, runs |-> 0]

\* empty stores, no run of the daily pipeline
\* no WatchlistService call is made
NoWatchlistCalls ==
    /\ watchlist = {}
    /\ watchlist_history = {}
    /\ callers = <<>>

\* no migration is run
NoMigration ==
    /\ documents = {}
    /\ migrators = <<>>

InitStores ==
    /\ daily_metrics = {}
    /\ metric_medians = {}
    /\ signal_states = {}
    /\ notification_log = {}
    /\ outbox = {}
    /\ run = IdleRun
    /\ last_item = None
    /\ history = NoHistory

\* ------------------------------------- specification of the two functions
MetricValues == {NoValue} \cup (1..MaxValue)
MedianValues == {NoValue} \cup (2..(2 * MaxValue))
SigDays == 0..MaxDay

MediansArgs == [median_1w : MedianValues, median_3m : MedianValues, median_1y : MedianValues]

\* the classifications evaluate_signal can return, as (category, combo, is_strong)
Classifications ==
    { <<StrongCategory(mt), "1Y+3M+1W", TRUE>> : mt \in MetricTypes }
    \cup { <<NormalCategory(mt), c, FALSE>> : mt \in MetricTypes, c \in {"1Y+3M", "3M+1W", "1Y+1W"} }

\* the states a signal_state store can hand to build_signal_state
PreviousStates ==
    {None}
    \cup { [trade_date |-> d, category |-> Null, combo |-> Null, is_strong |-> FALSE,
            streak_days |-> 0] : d \in SigDays }
    \cup { [trade_date |-> d, category |-> c[1], combo |-> c[2], is_strong |-> c[3],
            streak_days |-> k] : d \in SigDays, c \in Classifications, k \in 1..MaxStreak }

InitSignal ==
    /\ sig_args \in [ticker : {"T1"}, trade_date : SigDays, metric_type : MetricTypes,
                     metric_value : MetricValues, medians : MediansArgs]
    /\ evaluation = None
    /\ previous_state = None
    /\ built_state = None
    /\ fallback = IdleFetch
    /\ NoWatchlistCalls
    /\ NoMigration
    /\ calc = None
    /\ last_dispatch = None
    /\ InitStores

EvaluateSignal ==
    /\ sig_args # None
    /\ evaluation = None
    /\ evaluation' = evaluate_signal(sig_args.ticker, sig_args.trade_date,
                                     sig_args.metric_type, sig_args.metric_value,
                                     sig_args.medians)
    /\ UNCHANGED <<sig_args, previous_state, built_state>>
    /\ UNCHANGED dispatchvars
    /\ UNCHANGED dailyvars
    /\ UNCHANGED <<fallbackvars, calcvars, watchvars, migrationvars>>

\* build_signal_state reads the evaluation only; the medians are dropped here
BuildSignalState ==
    /\ evaluation # None
    /\ built_state = None
    /\ \E prev \in PreviousStates :
         /\ previous_state' = prev
         /\ built_state' = build_signal_state(evaluation, prev)
    /\ sig_args' = None
    /\ UNCHANGED evaluation
    /\ UNCHANGED dispatchvars
    /\ UNCHANGED dailyvars
    /\ UNCHANGED <<fallbackvars, calcvars, watchvars, migrationvars>>

NextSignal == EvaluateSignal \/ BuildSignalState

SpecSignal == InitSignal /\ [][NextSignal]_vars

\* ------------------------------------------ specification of the dispatch
\* the job scripts hand over UTC texts ("+00:00")
Offsets == {0}
Timestamps == [clock : 0..MaxHour, offset : Offsets]
CooldownHours == 0..MaxCooldown
CompanyName(ticker) == IF normalize_ticker(ticker) = "T1" THEN "N1" ELSE "N2"

\* states whose notification the daily pipeline dispatches: one normal, one strong
SampleSignalState(metric_type, combo) ==
    [metric_type |-> metric_type, combo |-> combo,
     is_strong |-> (combo = "1Y+3M+1W"),
     category |-> IF combo = "1Y+3M+1W" THEN StrongCategory(metric_type)
                  ELSE NormalCategory(metric_type),
     streak_days |-> 1]

SampleMedians == [median_1w |-> 4, median_3m |-> 4, median_1y |-> 4]

\* the calls of _dispatch_with_cooldown that are drawn: the message and the
\* ticker argument ("t1" is a spelling of T1 that normalize_ticker folds)
DispatchCandidates ==
    { [ticker |-> "t1",
       message |-> format_signal_message("t1", CompanyName("t1"),
                                         SampleSignalState("PER", "1Y+3M"), 1, SampleMedians)],
      [ticker |-> "T1",
       message |-> format_signal_message("T1", CompanyName("T1"),
                                         SampleSignalState("PER", "1Y+3M+1W"), 1, SampleMedians)],
      [ticker |-> "T2",
       message |-> format_signal_message("T2", CompanyName("T2"),
                                         SampleSignalState("PER", "1Y+3M"), 1, SampleMedians)] }

DispatchFaults == { {}, {"log_list"}, {"send"}, {"log_append"} }

InitDispatch ==
    /\ InitStores
    /\ last_dispatch = None
    /\ sig_args = None
    /\ evaluation = None
    /\ previous_state = None
    /\ built_state = None
    /\ fallback = IdleFetch
    /\ NoWatchlistCalls
    /\ NoMigration
    /\ calc = None

\* one call _dispatch_with_cooldown(message, ticker, message.is_strong, ..., channel="DISCORD");
\* now_iso is the wall clock of the job (resolve_now_utc_iso), which does not go
\* back from one call to the next
Dispatch ==
    /\ \E c \in DispatchCandidates, cooldown_hours \in CooldownHours, faults \in DispatchFaults,
          now_iso \in { t \in Timestamps :
                          last_dispatch = None \/ t.clock >= last_dispatch.now_iso.clock } :
         LET r == _dispatch_with_cooldown(c.message, c.ticker, c.message.is_strong,
                                          notification_log, outbox, cooldown_hours, now_iso,
                                          "DISCORD", faults)
         IN /\ notification_log' = r.log
            /\ outbox' = r.outbox
            /\ last_dispatch' = [message |-> c.message, ticker |-> c.ticker,
                                 now_iso |-> now_iso, cooldown_hours |-> cooldown_hours,
                                 decision |-> r.decision, ret |-> r.ret,
                                 raised |-> r.raised, send_called |-> r.send_called]
    /\ UNCHANGED sigvars
    /\ UNCHANGED dailyvars
    /\ UNCHANGED <<fallbackvars, calcvars, watchvars, migrationvars>>

NextDispatch == Dispatch

SpecDispatch == InitDispatch /\ [][NextDispatch]_vars

\* --------------------------------- specification of the daily pipeline
Db == [daily_metrics |-> daily_metrics, metric_medians |-> metric_medians,
       signal_states |-> signal_states, notification_log |-> notification_log,
       outbox |-> outbox]

Eligible(item, config) ==
    /\ item.is_active
    /\ _is_channel_enabled(item, config.channel)
    /\ _should_dispatch_for_timing(item.notify_timing, config.execution_mode)

\* run_daily_pipeline is called with a config and a watchlist
StartRun(Configs, Watchlists) ==
    /\ run.status \in {"idle", "returned", "raised"}
    /\ \E config \in Configs, watchlist_items \in Watchlists :
         /\ run' = [pipeline |-> "daily", status |-> "running", config |-> config,
                    watchlist_items |-> watchlist_items, entries |-> <<>>, index |-> 1,
                    result |-> PipelineResult(0, 0, 0, 0), visited |-> <<>>]
         /\ history' = [trade_dates |-> history.trade_dates \cup {config.trade_date},
                        increasing |-> history.increasing
                                       /\ \A d \in history.trade_dates : d < config.trade_date,
                        runs |-> history.runs + 1]
    /\ UNCHANGED <<daily_metrics, metric_medians, signal_states, notification_log, outbox>>
    /\ UNCHANGED <<last_item, last_dispatch>>
    /\ UNCHANGED sigvars
    /\ UNCHANGED <<fallbackvars, calcvars, watchvars, migrationvars>>

\* lines 120-134: the outcome of _process_single_ticker goes to the stores, and
\* through the try/except (caught) into the result
MergeOutcome(item, snapshot, faults, outcome, caught) ==
    /\ daily_metrics' = outcome.db.daily_metrics
    /\ metric_medians' = outcome.db.metric_medians
    /\ signal_states' = outcome.db.signal_states
    /\ notification_log' = outcome.db.notification_log
    /\ outbox' = outcome.db.outbox
    /\ last_item' = [watch_item |-> item, snapshot |-> snapshot, config |-> run.config,
                     faults |-> faults, raised |-> outcome.raised, state |-> outcome.state,
                     result |-> caught.value]
    /\ run' = IF caught.raised
              THEN [run EXCEPT !.status = "raised"]
              ELSE [run EXCEPT !.index = @ + 1,
                               !.result = PipelineResult_merge(@, caught.value),
                               !.visited = Append(@, run.index)]

ProcessOutcome(item, snapshot, faults, outcome) ==
    MergeOutcome(item, snapshot, faults, outcome, ticker_result(outcome))

\* one iteration of the loop over watchlist_items: the three "continue" tests,
\* then _process_single_ticker inside the try/except, then result.merge
LoopItem(Snapshots, Faults) ==
    /\ run.pipeline = "daily"
    /\ run.status = "running"
    /\ run.index <= Len(run.watchlist_items)
    /\ IF ~Eligible(run.watchlist_items[run.index], run.config)
       THEN /\ run' = [run EXCEPT !.index = @ + 1]
            /\ UNCHANGED <<daily_metrics, metric_medians, signal_states,
                           notification_log, outbox, last_item>>
       ELSE \E snapshot \in Snapshots, faults \in Faults :
              ProcessOutcome(run.watchlist_items[run.index], snapshot, faults,
                             _process_single_ticker(run.watchlist_items[run.index], snapshot,
                                                    faults, run.config, Db))
    /\ UNCHANGED <<history, last_dispatch>>
    /\ UNCHANGED sigvars
    /\ UNCHANGED <<fallbackvars, calcvars, watchvars, migrationvars>>

\* the loop is over: return result
ReturnResult ==
    /\ run.pipeline = "daily"
    /\ run.status = "running"
    /\ run.index > Len(run.watchlist_items)
    /\ run' = [run EXCEPT !.status = "returned"]
    /\ UNCHANGED <<daily_metrics, metric_medians, signal_states, notification_log, outbox>>
    /\ UNCHANGED <<last_item, history, last_dispatch>>
    /\ UNCHANGED sigvars
    /\ UNCHANGED <<fallbackvars, calcvars, watchvars, migrationvars>>

UtcNow == [clock |-> 0, offset |-> 0]

WatchItem(ticker, metric_type, notify_channel, notify_timing, is_active) ==
    [ticker |-> ticker, name |-> CompanyName(ticker), metric_type |-> metric_type,
     notify_channel |-> notify_channel, notify_timing |-> notify_timing,
     is_active |-> is_active]

Config(trade_date, windows, cooldown_hours, execution_mode) ==
    [trade_date |-> trade_date, window_1w_days |-> windows[1],
     window_3m_days |-> windows[2], window_1y_days |-> windows[3],
     cooldown_hours |-> cooldown_hours, now_iso |-> UtcNow, channel |-> "DISCORD",
     execution_mode |-> execution_mode]

Snapshot(close_price, eps_forecast, sales_forecast, market_cap, earnings_date) ==
    [close_price |-> close_price, eps_forecast |-> eps_forecast,
     sales_forecast |-> sales_forecast, market_cap |-> market_cap,
     earnings_date |-> earnings_date]

EmptyDb == [daily_metrics |-> {}, metric_medians |-> {}, signal_states |-> {},
            notification_log |-> {}, outbox |-> {}]

\* ---- one run with failures: two tickers, every fault point, valid and invalid
\* ---- configs, on stores that are empty or hold what a Tuesday run left
DailyItems ==
    { WatchItem("T1", "PER", "DISCORD", "IMMEDIATE", TRUE),
      WatchItem("T2", "PSR", "BOTH", "AT_21", TRUE),
      WatchItem("T1", "PER", "DISCORD", "IMMEDIATE", FALSE),
      WatchItem("T2", "PER", "LINE", "IMMEDIATE", TRUE) }

RECURSIVE SeqsUpTo(_, _)
SeqsUpTo(S, n) ==
    IF n = 0 THEN {<<>>}
    ELSE LET shorter == SeqsUpTo(S, n - 1)
         IN shorter \cup { Append(w, x) : w \in shorter, x \in S }

DailyWatchlists == SeqsUpTo(DailyItems, MaxItems)

\* (1w, 3m, 1y): in order; 1w > 3m; a zero window
DailyWindows == { <<2, 2, 2>>, <<2, 1, 2>>, <<0, 2, 2>> }

\* trade dates: the Monday before and the Wednesday after the Tuesday of PriorDb
DailyConfigs ==
    { Config(d, <<2, 2, 2>>, 1, m) : d \in {0, 2}, m \in {"ALL", "DAILY"} }
    \cup { Config(2, w, 1, "ALL") : w \in DailyWindows }
    \cup { Config(2, <<2, 2, 2>>, c, "ALL") : c \in 0..1 }

\* two complete snapshots; eps_forecast 0 and no sales_forecast;
\* no close_price; nothing missing but the earnings date
DailySnapshots ==
    { Snapshot(2, 1, 1, NoValue, "e"), Snapshot(1, 1, 1, 1, "e"),
      Snapshot(1, 0, NoValue, NoValue, "e"),
      Snapshot(NoValue, 1, 1, NoValue, "e"), Snapshot(2, 1, 1, NoValue, Null) }

\* nothing raises; one call raises; the fetch raises MarketDataError and then a
\* call of the dispatch raises
DailyFaults ==
    { {} }
    \cup { {f} : f \in { "fetch", "fetch_market_data", "metrics_upsert", "metrics_list",
                         "medians_upsert", "state_get", "state_upsert", "log_list",
                         "send", "log_append" } }
    \cup { {"fetch_market_data", f} : f \in {"log_list", "send", "log_append"} }

\* the stores after T1 was processed on Tuesday (day 1) at a PER of 4
PriorDb ==
    _process_single_ticker(WatchItem("T1", "PER", "DISCORD", "IMMEDIATE", TRUE),
                           Snapshot(4, 1, 1, NoValue, "e"), {},
                           Config(1, <<2, 2, 2>>, 1, "ALL"), EmptyDb).db

InitDaily ==
    /\ \E db \in {EmptyDb, PriorDb} :
         /\ daily_metrics = db.daily_metrics
         /\ metric_medians = db.metric_medians
         /\ signal_states = db.signal_states
         /\ notification_log = db.notification_log
         /\ outbox = db.outbox
    /\ run = IdleRun
    /\ last_item = None
    /\ history = NoHistory
    /\ last_dispatch = None
    /\ sig_args = None
    /\ evaluation = None
    /\ previous_state = None
    /\ built_state = None
    /\ fallback = IdleFetch
    /\ NoWatchlistCalls
    /\ NoMigration
    /\ calc = None

\* one call of run_daily_pipeline on the stores drawn
StartDailyRun ==
    /\ run.status = "idle"
    /\ StartRun(DailyConfigs, DailyWatchlists)

ProcessItem == LoopItem(DailySnapshots, DailyFaults)

NextDaily == StartDailyRun \/ ProcessItem \/ ReturnResult

SpecDaily == InitDaily /\ [][NextDaily]_vars

\* ---- runs of one ticker over successive trade dates, nothing fails
\* the trade dates drawn: a Thursday, Friday, Saturday, Sunday and Monday
StreakDates == 3..7

StreakConfigs == { Config(d, <<2, 2, 2>>, 1, "ALL") : d \in StreakDates }

StreakWatchlists == { <<WatchItem("T1", "PER", "DISCORD", "IMMEDIATE", TRUE)>> }

StreakSnapshots == { Snapshot(c, 1, NoValue, NoValue, "e") : c \in 1..MaxClose }

InitStreak ==
    /\ InitStores
    /\ last_dispatch = None
    /\ sig_args = None
    /\ evaluation = None
    /\ previous_state = None
    /\ built_state = None
    /\ fallback = IdleFetch
    /\ NoWatchlistCalls
    /\ NoMigration
    /\ calc = None

\* the job runs for today's date (resolve_trade_date): trade dates do not go back
StartStreakRun ==
    /\ history.runs < MaxRuns
    /\ StartRun({ c \in StreakConfigs : \A d \in history.trade_dates : d <= c.trade_date },
                StreakWatchlists)

ProcessStreakItem == LoopItem(StreakSnapshots, { {} })

ReturnStreakResult == ReturnResult

NextStreak == StartStreakRun \/ ProcessStreakItem \/ ReturnStreakResult

SpecStreak == InitStreak /\ [][NextStreak]_vars

\* ---- one run of any of the three pipelines, over watchlists whose items
\* ---- differ in channel, timing and activity, and calendars that name
\* ---- listed and unlisted tickers
EarningsEntry(ticker, earnings_date, earnings_time) ==
    [ticker |-> ticker, earnings_date |-> earnings_date, earnings_time |-> earnings_time]

EarningsConfig(category, cooldown_hours, channel, execution_mode) ==
    [category |-> category, cooldown_hours |-> cooldown_hours, now_iso |-> UtcNow,
     channel |-> channel, execution_mode |-> execution_mode]

\* run_weekly_earnings_pipeline / run_tomorrow_earnings_pipeline is called:
\* the target entries are selected and _run_earnings_pipeline starts its loop
StartEarningsRun(Pipelines, Todays, Calendars, Watchlists, Channels, Modes) ==
    /\ run.status = "idle"
    /\ \E pipeline \in Pipelines, today \in Todays, earnings_entries \in Calendars,
          watchlist_items \in Watchlists, channel \in Channels, execution_mode \in Modes :
         run' = [pipeline |-> pipeline, status |-> "running",
                 config |-> EarningsConfig(IF pipeline = "weekly_earnings"
                                           THEN "WEEKLY_EARNINGS" ELSE "TOMORROW_EARNINGS",
                                           1, channel, execution_mode),
                 watchlist_items |-> watchlist_items,
                 entries |-> IF pipeline = "weekly_earnings"
                             THEN select_next_week_entries(earnings_entries, today)
                             ELSE select_tomorrow_entries(earnings_entries, today),
                 index |-> 1, result |-> PipelineResult(0, 0, 0, 0), visited |-> <<>>]
    /\ UNCHANGED <<daily_metrics, metric_medians, signal_states, notification_log, outbox>>
    /\ UNCHANGED <<last_item, history, last_dispatch>>
    /\ UNCHANGED sigvars
    /\ UNCHANGED <<fallbackvars, calcvars, watchvars, migrationvars>>

\* lines 352-357: the outcome of one entry goes to the log, the sender and the result
MergeEarningsOutcome(entry, watch_item, faults, outcome) ==
    /\ notification_log' = outcome.db.notification_log
    /\ outbox' = outcome.db.outbox
    /\ last_item' = [watch_item |-> watch_item, entry |-> entry, config |-> run.config,
                     faults |-> faults, raised |-> outcome.raised, result |-> outcome.result]
    /\ run' = [run EXCEPT !.index = @ + 1,
                          !.result = PipelineResult_merge(@, outcome.result),
                          !.visited = Append(@, run.index)]

\* lines 328-333: the three "continue" tests of one entry
EarningsEntrySkipped(watch_item, config) ==
    \/ watch_item = None
    \/ ~_is_channel_enabled(watch_item, config.channel)
    \/ ~_should_dispatch_for_timing(watch_item.notify_timing, config.execution_mode)

\* one iteration of the loop over entries in _run_earnings_pipeline
EarningsLoopEntry(Faults) ==
    /\ run.pipeline \in {"weekly_earnings", "tomorrow_earnings"}
    /\ run.status = "running"
    /\ run.index <= Len(run.entries)
    /\ IF EarningsEntrySkipped(watch_map_get(run.watchlist_items, run.entries[run.index].ticker),
                               run.config)
       THEN /\ run' = [run EXCEPT !.index = @ + 1]
            /\ UNCHANGED <<notification_log, outbox, last_item>>
       ELSE \E faults \in Faults :
              MergeEarningsOutcome(
                  run.entries[run.index],
                  watch_map_get(run.watchlist_items, run.entries[run.index].ticker),
                  faults,
                  _run_earnings_entry(
                      run.entries[run.index],
                      watch_map_get(run.watchlist_items, run.entries[run.index].ticker),
                      faults, run.config, Db))
    /\ UNCHANGED <<daily_metrics, metric_medians, signal_states>>
    /\ UNCHANGED <<history, last_dispatch>>
    /\ UNCHANGED sigvars
    /\ UNCHANGED <<fallbackvars, calcvars, watchvars, migrationvars>>

\* the loop over entries is over: return result
ReturnEarningsResult ==
    /\ run.pipeline \in {"weekly_earnings", "tomorrow_earnings"}
    /\ run.status = "running"
    /\ run.index > Len(run.entries)
    /\ run' = [run EXCEPT !.status = "returned"]
    /\ UNCHANGED <<daily_metrics, metric_medians, signal_states, notification_log, outbox>>
    /\ UNCHANGED <<last_item, history, last_dispatch>>
    /\ UNCHANGED sigvars
    /\ UNCHANGED <<fallbackvars, calcvars, watchvars, migrationvars>>

\* T1 with a channel and a timing of every kind, an inactive T1, and T2
JobItems ==
    { WatchItem("T1", "PER", "DISCORD", "IMMEDIATE", TRUE),
      WatchItem("T1", "PER", "LINE", "AT_21", TRUE),
      WatchItem("T1", "PER", "OFF", "IMMEDIATE", TRUE),
      WatchItem("T1", "PER", "BOTH", "OFF", TRUE),
      WatchItem("T1", "PER", "DISCORD", "IMMEDIATE", FALSE),
      WatchItem("T2", "PER", "BOTH", "AT_21", TRUE) }

JobWatchlists == SeqsUpTo(JobItems, MaxItems)

JobChannels == {"DISCORD", "LINE"}

JobModes == {"ALL", "DAILY", "AT_21"}

JobConfigs ==
    { [Config(2, <<2, 2, 2>>, 1, m) EXCEPT !.channel = c] : c \in JobChannels, m \in JobModes }

\* a snapshot without an earnings date: the ticker is notified as data unknown
JobSnapshots == { Snapshot(2, 1, 1, NoValue, Null) }

\* today is a Tuesday (day 1) or the Monday after (day 7)
JobTodays == {1, 7}

\* rows of T1, T2 and of T3, which no watchlist holds, for day 2 (tomorrow
\* of day 1) and day 8 (tomorrow of day 7, and in the week after day 1)
JobEarningsRows ==
    { EarningsEntry("T1", 2, Null), EarningsEntry("T1", 8, "15:00"),
      EarningsEntry("T2", 8, Null), EarningsEntry("T3", 8, Null) }

JobCalendars == SeqsUpTo(JobEarningsRows, MaxEntries)

JobFaults == { {}, {"send"} }

InitJobs ==
    /\ InitStores
    /\ last_dispatch = None
    /\ sig_args = None
    /\ evaluation = None
    /\ previous_state = None
    /\ built_state = None
    /\ fallback = IdleFetch
    /\ NoWatchlistCalls
    /\ NoMigration
    /\ calc = None

StartDailyJob ==
    /\ run.status = "idle"
    /\ StartRun(JobConfigs, JobWatchlists)

ProcessJobItem == LoopItem(JobSnapshots, JobFaults)

ReturnJobResult == ReturnResult

StartEarningsJob ==
    StartEarningsRun({"weekly_earnings", "tomorrow_earnings"}, JobTodays, JobCalendars,
                     JobWatchlists, JobChannels, JobModes)

ProcessEarningsEntry == EarningsLoopEntry(JobFaults)

NextJobs ==
    \/ StartDailyJob
    \/ ProcessJobItem
    \/ ReturnJobResult
    \/ StartEarningsJob
    \/ ProcessEarningsEntry
    \/ ReturnEarningsResult

SpecJobs == InitJobs /\ [][NextJobs]_vars

\* ---- one call of FallbackMarketDataSource.fetch_snapshot
SourceOutcomes == {"snapshot", "MarketDataFetchError", "Exception"}

FallbackSources == [source_name : {"S1", "S2"}, outcome : SourceOutcomes]

FallbackSourceLists == SeqsUpTo(FallbackSources, MaxSources)

InitFallback ==
    /\ InitStores
    /\ last_dispatch = None
    /\ sig_args = None
    /\ evaluation = None
    /\ previous_state = None
    /\ built_state = None
    /\ fallback = IdleFetch
    /\ NoWatchlistCalls
    /\ NoMigration
    /\ calc = None

\* FallbackMarketDataSource(sources).fetch_snapshot(ticker) is called
StartFetch ==
    /\ fallback.status = "idle"
    /\ \E sources \in FallbackSourceLists, ticker \in {"T1", "t1"} :
         fallback' = FallbackMarketDataSource_start(sources, ticker)
    /\ UNCHANGED <<sigvars, dispatchvars, dailyvars, calcvars, watchvars, migrationvars>>

\* one iteration of the loop: the next source is called
TrySource ==
    /\ fallback.status = "running"
    /\ fallback.index <= Len(fallback.sources)
    /\ fallback' = FallbackMarketDataSource_try(
                        fallback,
                        Source_fetch_snapshot(fallback.sources[fallback.index], fallback.ticker))
    /\ UNCHANGED <<sigvars, dispatchvars, dailyvars, calcvars, watchvars, migrationvars>>

\* line 119: the loop is over, raise MarketDataUnavailableError(reasons=errors)
RaiseUnavailable ==
    /\ fallback.status = "running"
    /\ fallback.index > Len(fallback.sources)
    /\ fallback' = [fallback EXCEPT !.status = "raised",
                                    !.raised = "MarketDataUnavailableError"]
    /\ UNCHANGED <<sigvars, dispatchvars, dailyvars, calcvars, watchvars, migrationvars>>

NextFallback == StartFetch \/ TrySource \/ RaiseUnavailable

SpecFallback == InitFallback /\ [][NextFallback]_vars

\* ------------------------------------------------------------ SpecMetrics
\* One call of calculate_metric_medians or of build_daily_metric.

\* a row of the history, as far as calculate_metric_medians reads it
MetricRows == [per_value : {NoValue, 1, 2, 4}, psr_value : {NoValue, 3}]

MetricHistories == SeqsUpTo(MetricRows, MaxHistory)

\* (window_1w_days, window_3m_days, window_1y_days), in the order the function accepts
MetricWindows ==
    { w \in (1..MaxWindow) \X (1..MaxWindow) \X (1..MaxWindow) : w[1] <= w[2] /\ w[2] <= w[3] }

\* the forecasts divide the price and the market capitalisation
MetricSnapshots ==
    { Snapshot(close_price, eps_forecast, sales_forecast, market_cap, Null) :
        close_price \in {NoValue, 0, 2}, eps_forecast \in {NoValue, 0 - 1, 0, 1, 2},
        sales_forecast \in {NoValue, 0 - 1, 0, 1, 2}, market_cap \in {NoValue, 0, 4} }

MedianCalls ==
    { [fn |-> "calculate_metric_medians",
       args |-> [metric_type |-> metric_type, latest_first_metrics |-> latest_first_metrics,
                 windows |-> windows],
       done |-> FALSE, result |-> None] :
        metric_type \in MetricTypes, latest_first_metrics \in MetricHistories,
        windows \in MetricWindows }

MetricCalls ==
    { [fn |-> "build_daily_metric",
       args |-> [metric_type |-> metric_type, snapshot |-> snapshot],
       done |-> FALSE, result |-> None, missing |-> None] :
        metric_type \in MetricTypes, snapshot \in MetricSnapshots }

InitMetrics ==
    /\ InitStores
    /\ last_dispatch = None
    /\ sig_args = None
    /\ evaluation = None
    /\ previous_state = None
    /\ built_state = None
    /\ fallback = IdleFetch
    /\ NoWatchlistCalls
    /\ NoMigration
    /\ calc \in MedianCalls \cup MetricCalls

CalculateMetricMedians ==
    /\ calc.fn = "calculate_metric_medians"
    /\ ~calc.done
    /\ calc' = [calc EXCEPT
                  !.done = TRUE,
                  !.result = calculate_metric_medians(
                                 "T1", 1, calc.args.metric_type, calc.args.latest_first_metrics,
                                 calc.args.windows[1], calc.args.windows[2], calc.args.windows[3])]
    /\ UNCHANGED <<sigvars, dispatchvars, dailyvars, fallbackvars, watchvars, migrationvars>>

BuildDailyMetric ==
    /\ calc.fn = "build_daily_metric"
    /\ ~calc.done
    /\ calc' = [calc EXCEPT
                  !.done = TRUE,
                  !.result = build_daily_metric("T1", 1, calc.args.metric_type,
                                                calc.args.snapshot)]
    /\ UNCHANGED <<sigvars, dispatchvars, dailyvars, fallbackvars, watchvars, migrationvars>>

\* metric_row.missing_fields(metric_type=...) on the row that was built
MissingFieldsOfMetric ==
    /\ calc.fn = "build_daily_metric"
    /\ calc.done
    /\ calc.missing = None
    /\ calc' = [calc EXCEPT
                  !.missing = [fields |-> DailyMetric_missing_fields(calc.result,
                                                                     calc.args.metric_type)]]
    /\ UNCHANGED <<sigvars, dispatchvars, dailyvars, fallbackvars, watchvars, migrationvars>>

NextMetrics == CalculateMetricMedians \/ BuildDailyMetric \/ MissingFieldsOfMetric

SpecMetrics == InitMetrics /\ [][NextMetrics]_vars

\* ----------------------------------------------------------- SpecCooldown
\* One call of evaluate_cooldown on a list of log entries.

\* what a notification of each kind carries: category, condition_key, is_strong
NotificationKinds ==
    { [category |-> "PER_CHEAP", condition_key |-> [prefix |-> "PER", rest |-> <<"1Y+3M">>],
       is_strong |-> FALSE],
      [category |-> "SUPER_PER_CHEAP",
       condition_key |-> [prefix |-> "PER", rest |-> <<"1Y+3M+1W">>], is_strong |-> TRUE],
      [category |-> "PSR_CHEAP", condition_key |-> [prefix |-> "PSR", rest |-> <<"1Y+3M">>],
       is_strong |-> FALSE] }

\* a log entry, as far as evaluate_cooldown reads it
CooldownEntry(ticker, kind, clock) ==
    [ticker |-> ticker, category |-> kind.category, condition_key |-> kind.condition_key,
     is_strong |-> kind.is_strong, sent_at |-> [clock |-> clock, offset |-> 0]]

CooldownEntries ==
    { CooldownEntry("T1", kind, clock) : kind \in NotificationKinds, clock \in {0, 2} }
    \cup { CooldownEntry("T2", kind, 2) : kind \in { k \in NotificationKinds : ~k.is_strong /\ k.condition_key.prefix = "PER" } }

CooldownCalls ==
    { [fn |-> "evaluate_cooldown",
       args |-> [now_iso |-> [clock |-> 2, offset |-> 0], cooldown_hours |-> cooldown_hours,
                 candidate_ticker |-> candidate_ticker, candidate |-> candidate,
                 recent_entries |-> recent_entries],
       done |-> FALSE, result |-> None, again |-> None] :
        cooldown_hours \in CooldownHours, candidate_ticker \in {"T1", "t1"},
        candidate \in { k \in NotificationKinds : k.condition_key.prefix = "PER" },
        recent_entries \in SeqsUpTo(CooldownEntries, MaxRecent) }

InitCooldown ==
    /\ InitStores
    /\ last_dispatch = None
    /\ sig_args = None
    /\ evaluation = None
    /\ previous_state = None
    /\ built_state = None
    /\ fallback = IdleFetch
    /\ NoWatchlistCalls
    /\ NoMigration
    /\ calc \in CooldownCalls

\* evaluate_cooldown of one call, on the list recent_entries
CooldownDecisionOf(args, recent_entries) ==
    evaluate_cooldown(args.now_iso, args.cooldown_hours, args.candidate_ticker,
                      args.candidate.category, args.candidate.condition_key,
                      args.candidate.is_strong, recent_entries)

EvaluateCooldown ==
    /\ calc.fn = "evaluate_cooldown"
    /\ ~calc.done
    /\ calc' = [calc EXCEPT !.done = TRUE,
                            !.result = CooldownDecisionOf(calc.args, calc.args.recent_entries)]
    /\ UNCHANGED <<sigvars, dispatchvars, dailyvars, fallbackvars, watchvars, migrationvars>>

\* the same call is made once more; its decision is kept in again
EvaluateCooldownAgain ==
    /\ calc.fn = "evaluate_cooldown"
    /\ calc.done
    /\ calc.again = None
    /\ calc' = [calc EXCEPT !.again = CooldownDecisionOf(calc.args, calc.args.recent_entries)]
    /\ UNCHANGED <<sigvars, dispatchvars, dailyvars, fallbackvars, watchvars, migrationvars>>

NextCooldown == EvaluateCooldown \/ EvaluateCooldownAgain

SpecCooldown == InitCooldown /\ [][NextCooldown]_vars

\* ----------------------------------------------------------- SpecEarnings
\* One call of select_next_week_entries.

\* the seven days of one week (day 7 is a Monday)
SelectionTodays == 7..13

\* rows of the week before, of the week of today, of the week after (its
\* Monday, a Thursday, its Sunday) and of later weeks
SelectionRows ==
    { EarningsEntry(ticker, earnings_date, Null) :
        ticker \in {"T1", "T2"}, earnings_date \in {6, 7, 13, 14, 17, 20, 21} }

SelectionCalls ==
    { [fn |-> "select_next_week_entries", args |-> [entries |-> entries, today |-> today],
       done |-> FALSE, result |-> None] :
        entries \in SeqsUpTo(SelectionRows, MaxEntries), today \in SelectionTodays }

InitEarnings ==
    /\ InitStores
    /\ last_dispatch = None
    /\ sig_args = None
    /\ evaluation = None
    /\ previous_state = None
    /\ built_state = None
    /\ fallback = IdleFetch
    /\ NoWatchlistCalls
    /\ NoMigration
    /\ calc \in SelectionCalls

SelectNextWeekEntries ==
    /\ calc.fn = "select_next_week_entries"
    /\ ~calc.done
    /\ calc' = [calc EXCEPT
                  !.done = TRUE,
                  !.result = [selected |-> select_next_week_entries(calc.args.entries,
                                                                    calc.args.today)]]
    /\ UNCHANGED <<sigvars, dispatchvars, dailyvars, fallbackvars, watchvars, migrationvars>>

NextEarnings == SelectNextWeekEntries

SpecEarnings == InitEarnings /\ [][NextEarnings]_vars

\* ---------------------------------------------------------- SpecWatchlist
\* Callers of one WatchlistService (max_items = MaxWatchItems, a history
\* repository configured) each make one add_item or delete_item call; the
\* calls interleave at their repository calls.  The repository either runs
\* try_create as a transaction or, for a client without transactions, as
\* _try_create_fallback.

max_items == MaxWatchItems

WatchTickers == {"T1", "T2", "T3"}

\* the collaborator calls of one service call that raise: the history append,
\* and the rollback write that follows it
WatchFaults == { {}, {"history_append"}, {"history_append", "rollback"} }

InitialWatchlists ==
    { items \in SUBSET { WatchlistDoc(ticker, "N0") : ticker \in WatchTickers } :
        Cardinality(items) <= max_items }

InitWatchlist ==
    /\ InitStores
    /\ last_dispatch = None
    /\ sig_args = None
    /\ evaluation = None
    /\ previous_state = None
    /\ built_state = None
    /\ fallback = IdleFetch
    /\ calc = None
    /\ NoMigration
    /\ watchlist \in InitialWatchlists
    /\ watchlist_history = {}
    /\ \E transactional \in BOOLEAN : callers = [c \in Callers |-> IdleCall(transactional)]

\* caller c takes a step that leaves its call as call; the calls of the other
\* callers that are in progress have been interleaved with
CallerStep(c, call) ==
    callers' = [d \in Callers |->
                  IF d = c THEN call
                  ELSE IF callers[d].pc \notin {"idle", "done"}
                  THEN [callers[d] EXCEPT !.interleaved = TRUE]
                  ELSE callers[d]]

WatchOthersUnchanged ==
    UNCHANGED <<sigvars, dispatchvars, dailyvars, fallbackvars, calcvars, migrationvars>>

\* add_item(ticker=..., name=...) is called: lines 238-251 build the item
StartAddItem(c) ==
    /\ callers[c].pc = "idle"
    /\ \E ticker \in WatchTickers, faults \in WatchFaults :
         CallerStep(c, [callers[c] EXCEPT
                          !.op = "add_item", !.ticker = ticker,
                          !.item = WatchlistDoc(ticker, ToString(c)), !.faults = faults,
                          !.before = watchlist,
                          !.pc = IF callers[c].transactional THEN "try_create"
                                 ELSE "fallback_get"])
    /\ UNCHANGED <<watchlist, watchlist_history>>
    /\ WatchOthersUnchanged

\* try_create, the transaction
TryCreate(c) ==
    /\ callers[c].pc = "try_create"
    /\ LET r == _transactional_create(watchlist, callers[c].item, max_items)
       IN /\ watchlist' = r.items
          /\ CallerStep(c, add_item_after_create(callers[c], r.result, r.items))
    /\ UNCHANGED watchlist_history
    /\ WatchOthersUnchanged

\* _try_create_fallback: doc_ref.get()
FallbackGet(c) ==
    /\ callers[c].pc = "fallback_get"
    /\ CallerStep(c, IF WatchlistExists(watchlist, callers[c].ticker)
                     THEN add_item_after_create(callers[c], "DUPLICATE", watchlist)
                     ELSE [callers[c] EXCEPT !.pc = "fallback_count"])
    /\ UNCHANGED <<watchlist, watchlist_history>>
    /\ WatchOthersUnchanged

\* _try_create_fallback: self.count() >= max_items
FallbackCount(c) ==
    /\ callers[c].pc = "fallback_count"
    /\ CallerStep(c, IF WatchlistRepository_count(watchlist) >= max_items
                     THEN add_item_after_create(callers[c], "LIMIT_EXCEEDED", watchlist)
                     ELSE [callers[c] EXCEPT !.pc = "fallback_create"])
    /\ UNCHANGED <<watchlist, watchlist_history>>
    /\ WatchOthersUnchanged

\* _try_create_fallback: doc_ref.create(...), AlreadyExists giving DUPLICATE
FallbackCreate(c) ==
    /\ callers[c].pc = "fallback_create"
    /\ LET r == WatchlistRepository_create(watchlist, callers[c].item)
       IN /\ watchlist' = r.items
          /\ CallerStep(c, add_item_after_create(
                               callers[c], IF r.raised THEN "DUPLICATE" ELSE "CREATED", r.items))
    /\ UNCHANGED watchlist_history
    /\ WatchOthersUnchanged

\* _record_history of add_item (ADD) or delete_item (REMOVE): the append
\* raises, or the record is stored and the call returns
RecordHistory(c) ==
    /\ callers[c].pc = "record_history"
    /\ IF "history_append" \in callers[c].faults
       THEN /\ CallerStep(c, [callers[c] EXCEPT !.history_failed = TRUE, !.pc = "rollback"])
            /\ UNCHANGED watchlist_history
       ELSE /\ watchlist_history' =
                 watchlist_history
                 \cup {WatchlistHistoryRecord(callers[c].ticker,
                                              IF callers[c].op = "add_item" THEN "ADD"
                                              ELSE "REMOVE", c)}
            /\ CallerStep(c, FinishCall(callers[c], "returned", watchlist))
    /\ UNCHANGED watchlist
    /\ WatchOthersUnchanged

\* add_item: the rollback after the history append raised
RollbackAdd(c) ==
    /\ callers[c].pc = "rollback"
    /\ callers[c].op = "add_item"
    /\ LET r == add_item_rollback(callers[c], watchlist)
       IN /\ watchlist' = r.items
          /\ CallerStep(c, r.call)
    /\ UNCHANGED watchlist_history
    /\ WatchOthersUnchanged

\* delete_item(ticker) is called: lines 340-343, self._repository.get
StartDeleteItem(c) ==
    /\ callers[c].pc = "idle"
    /\ \E ticker \in WatchTickers, faults \in WatchFaults :
         LET existing == WatchlistRepository_get(watchlist, ticker)
             call == [callers[c] EXCEPT !.op = "delete_item", !.ticker = ticker,
                                        !.faults = faults, !.before = watchlist,
                                        !.existing = existing]
         IN CallerStep(c, IF existing = None
                          THEN FinishCall(call, "WatchlistNotFoundError", watchlist)
                          ELSE [call EXCEPT !.pc = "delete"])
    /\ UNCHANGED <<watchlist, watchlist_history>>
    /\ WatchOthersUnchanged

\* delete_item, lines 345-347: self._repository.delete
DeleteItem(c) ==
    /\ callers[c].pc = "delete"
    /\ LET r == WatchlistRepository_delete(watchlist, callers[c].ticker)
       IN /\ watchlist' = r.items
          /\ CallerStep(c, IF r.deleted THEN [callers[c] EXCEPT !.pc = "record_history"]
                           ELSE FinishCall(callers[c], "WatchlistNotFoundError", r.items))
    /\ UNCHANGED watchlist_history
    /\ WatchOthersUnchanged

\* delete_item: the rollback after the history append raised
RollbackDelete(c) ==
    /\ callers[c].pc = "rollback"
    /\ callers[c].op = "delete_item"
    /\ LET r == delete_item_rollback(callers[c], watchlist)
       IN /\ watchlist' = r.items
          /\ CallerStep(c, r.call)
    /\ UNCHANGED watchlist_history
    /\ WatchOthersUnchanged

NextWatchlist ==
    \E c \in Callers :
        \/ StartAddItem(c)
        \/ TryCreate(c)
        \/ FallbackGet(c)
        \/ FallbackCount(c)
        \/ FallbackCreate(c)
        \/ RecordHistory(c)
        \/ RollbackAdd(c)
        \/ StartDeleteItem(c)
        \/ DeleteItem(c)
        \/ RollbackDelete(c)

SpecWatchlist == InitWatchlist /\ [][NextWatchlist]_vars

\* ---------------------------------------------------------- SpecMigration
\* Processes invoke apply_initial_migration on one store, once each; the
\* invocations interleave at their store calls, and a set_document call of the
\* write loop may raise.

Migrators == {1, 2, 3}

InitMigration ==
    /\ InitStores
    /\ last_dispatch = None
    /\ sig_args = None
    /\ evaluation = None
    /\ previous_state = None
    /\ built_state = None
    /\ fallback = IdleFetch
    /\ calc = None
    /\ NoWatchlistCalls
    /\ documents = {}
    /\ migrators = [p \in Migrators |-> IdleMigrator]

MigrationOthersUnchanged ==
    UNCHANGED <<sigvars, dispatchvars, dailyvars, fallbackvars, calcvars, watchvars>>

StartMigration(p) ==
    /\ migrators[p].pc = "idle"
    /\ migrators' = [migrators EXCEPT ![p] = apply_initial_migration_start(@, documents)]
    /\ UNCHANGED documents
    /\ MigrationOthersUnchanged

CreateLock(p) ==
    /\ migrators[p].pc = "create_lock"
    /\ LET r == apply_initial_migration_lock(migrators[p], documents)
       IN /\ migrators' = [migrators EXCEPT ![p] = r.m]
          /\ documents' = r.docs
    /\ MigrationOthersUnchanged

Recheck(p) ==
    /\ migrators[p].pc = "recheck"
    /\ \E fail_at \in 0..Len(build_initial_migration_operations) :
         migrators' = [migrators EXCEPT
                         ![p] = apply_initial_migration_recheck(@, documents, fail_at)]
    /\ UNCHANGED documents
    /\ MigrationOthersUnchanged

WriteOperation(p) ==
    /\ migrators[p].pc = "write"
    /\ LET r == apply_initial_migration_write(migrators[p], documents,
                                              build_initial_migration_operations)
       IN /\ migrators' = [migrators EXCEPT ![p] = r.m]
          /\ documents' = r.docs
    /\ MigrationOthersUnchanged

ReleaseLock(p) ==
    /\ migrators[p].pc = "release"
    /\ LET r == apply_initial_migration_release(migrators[p], documents)
       IN /\ migrators' = [migrators EXCEPT ![p] = r.m]
          /\ documents' = r.docs
    /\ MigrationOthersUnchanged

NextMigration ==
    \E p \in Migrators :
        \/ StartMigration(p)
        \/ CreateLock(p)
        \/ Recheck(p)
        \/ WriteOperation(p)
        \/ ReleaseLock(p)

SpecMigration == InitMigration /\ [][NextMigration]_vars

\* -------------------------------------------------------- SpecDataUnknown
\* format_data_unknown_message on every list of at most MaxFields names, and the
\* two data-unknown events of one ticker going through _dispatch_with_cooldown
\* one hour apart under a cooldown of one hour
FieldNames == {"close_price", " close_price ", "eps_forecast", "", " "}

DataUnknownCalls ==
    { [fn |-> "format_data_unknown_message",
       args |-> [ticker |-> ticker, company_name |-> CompanyName(ticker),
                 missing_fields |-> missing_fields, context |-> "daily"],
       done |-> FALSE, result |-> None, again |-> None] :
        ticker \in {"T1", "t1"}, missing_fields \in SeqsUpTo(FieldNames, MaxFields) }

InitDataUnknown ==
    /\ InitStores
    /\ last_dispatch = None
    /\ sig_args = None
    /\ evaluation = None
    /\ previous_state = None
    /\ built_state = None
    /\ fallback = IdleFetch
    /\ NoWatchlistCalls
    /\ NoMigration
    /\ calc \in DataUnknownCalls

\* one data-unknown event: the message is formatted and dispatched on the log
DataUnknownEvent(args, missing_fields, log, sent_bodies, clock) ==
    LET message == format_data_unknown_message(args.ticker, args.company_name,
                                               missing_fields, args.context)
    IN [missing_fields |-> missing_fields,
        message |-> message,
        dispatch |-> _dispatch_with_cooldown(message, args.ticker, FALSE, log, sent_bodies, 1,
                                             [clock |-> clock, offset |-> 0], "DISCORD", {})]

FormatDataUnknown ==
    /\ calc.fn = "format_data_unknown_message"
    /\ ~calc.done
    /\ calc' = [calc EXCEPT !.done = TRUE,
                            !.result = DataUnknownEvent(calc.args, calc.args.missing_fields,
                                                        {}, {}, 0)]
    /\ UNCHANGED <<sigvars, dispatchvars, dailyvars, fallbackvars, watchvars, migrationvars>>

\* a second event of the same ticker, with any list of names, one hour later
FormatDataUnknownAgain ==
    /\ calc.fn = "format_data_unknown_message"
    /\ calc.done
    /\ calc.again = None
    /\ \E missing_fields \in SeqsUpTo(FieldNames, MaxFields) :
         calc' = [calc EXCEPT !.again = DataUnknownEvent(calc.args, missing_fields,
                                                         calc.result.dispatch.log,
                                                         calc.result.dispatch.outbox, 1)]
    /\ UNCHANGED <<sigvars, dispatchvars, dailyvars, fallbackvars, watchvars, migrationvars>>

NextDataUnknown == FormatDataUnknown \/ FormatDataUnknownAgain

SpecDataUnknown == InitDataUnknown /\ [][NextDataUnknown]_vars

\* ------------------------------------------------------------ SpecBacklog
\* Dispatches of one ticker on a log that starts empty, under one cooldown_hours,
\* with now values that also go back: data-unknown notifications of runs whose
\* now lies ahead, each more than cooldown_hours after the one before, and a
\* signal notification of runs whose now is hour 0 or hour 1.
BacklogCooldownHours == MaxCooldown
BacklogFirstHour == 10
BacklogStep == MaxCooldown + 1

BacklogMessage ==
    format_data_unknown_message("T1", CompanyName("T1"), <<"market_data_source">>, "fetch")

SignalMessage ==
    format_signal_message("T1", CompanyName("T1"), SampleSignalState("PER", "1Y+3M"), 1, SampleMedians)

BacklogEntries == { e \in notification_log : e.category = BacklogMessage.category }

InitBacklog ==
    /\ InitStores
    /\ last_dispatch = None
    /\ sig_args = None
    /\ evaluation = None
    /\ previous_state = None
    /\ built_state = None
    /\ fallback = IdleFetch
    /\ NoWatchlistCalls
    /\ NoMigration
    /\ calc = None

\* one call of _dispatch_with_cooldown on the log, recorded in last_dispatch
DispatchOnLog(message, now_iso) ==
    LET r == _dispatch_with_cooldown(message, "T1", message.is_strong, notification_log, outbox,
                                     BacklogCooldownHours, now_iso, "DISCORD", {})
    IN /\ notification_log' = r.log
       /\ outbox' = r.outbox
       /\ last_dispatch' = [message |-> message, ticker |-> "T1",
                            now_iso |-> now_iso, cooldown_hours |-> BacklogCooldownHours,
                            decision |-> r.decision, ret |-> r.ret,
                            raised |-> r.raised, send_called |-> r.send_called]
       /\ UNCHANGED sigvars
       /\ UNCHANGED <<daily_metrics, metric_medians, signal_states, run, last_item, history>>
       /\ UNCHANGED <<fallbackvars, calcvars, watchvars, migrationvars>>

DispatchBacklog ==
    /\ Cardinality(BacklogEntries) < RecentLogLimit
    /\ DispatchOnLog(BacklogMessage,
                     [clock |-> BacklogFirstHour + BacklogStep * Cardinality(BacklogEntries),
                      offset |-> 0])

DispatchSignal ==
    \E clock \in {0, 1} : DispatchOnLog(SignalMessage, [clock |-> clock, offset |-> 0])

NextBacklog == DispatchBacklog \/ DispatchSignal

SpecBacklog == InitBacklog /\ [][NextBacklog]_vars

\* ================================================================ claims
\* ---- evaluate_signal / build_signal_state (SpecSignal)

\* the business day (Mon-Fri) that precedes day d
PreviousBusinessDay(d) ==
    CHOOSE p \in (d - 7)..(d - 1) :
        /\ Weekday(p) \in 0..4
        /\ \A q \in (p + 1)..(d - 1) : Weekday(q) \in {5, 6}

\* C5: with a category, streak_days is previous.streak_days + 1 exactly when a
\* previous state exists with the same category, combo and is_strong whose
\* trade_date is the previous business day of the new trade_date; otherwise 1.
C5_StreakTransition ==
    (built_state # None /\ evaluation.category # Null) =>
        LET continues ==
              /\ previous_state # None
              /\ previous_state.category = evaluation.category
              /\ previous_state.combo = evaluation.combo
              /\ previous_state.is_strong = evaluation.is_strong
              /\ previous_state.trade_date = PreviousBusinessDay(evaluation.trade_date)
        IN /\ continues => built_state.streak_days = previous_state.streak_days + 1
           /\ ~continues => built_state.streak_days = 1

\* a streak continued from a Friday to the following Monday
C5_Witness ==
    /\ built_state # None
    /\ previous_state # None
    /\ evaluation.category # Null
    /\ Weekday(evaluation.trade_date) = 0
    /\ previous_state.trade_date = evaluation.trade_date - 3
    /\ built_state.streak_days = previous_state.streak_days + 1

\* C6: an evaluation without a category yields streak_days = 0, category and
\* combo null and is_strong false, whatever the previous state was.
C6_NoSignalResets ==
    (built_state # None /\ evaluation.category = Null) =>
        /\ built_state.streak_days = 0
        /\ built_state.category = Null
        /\ built_state.combo = Null
        /\ built_state.is_strong = FALSE

\* a no-category evaluation arriving on the business day after a running streak
C6_Witness ==
    /\ built_state # None
    /\ evaluation.category = Null
    /\ previous_state # None
    /\ previous_state.streak_days >= 2
    /\ previous_state.trade_date = PreviousBusinessDay(evaluation.trade_date)
    /\ built_state.streak_days = 0

\* the classification table of section 4.2, row by row over (under_1w, under_3m, under_1y)
TableCombo(u1w, u3m, u1y) ==
    CASE u1w /\ u3m /\ u1y -> "1Y+3M+1W"
      [] ~u1w /\ u3m /\ u1y -> "1Y+3M"
      [] u1w /\ u3m /\ ~u1y -> "3M+1W"
      [] u1w /\ ~u3m /\ u1y -> "1Y+1W"
      [] OTHER -> Null

TableCategory(metric_type, combo) ==
    CASE combo = Null -> Null
      [] combo = "1Y+3M+1W" -> (IF metric_type = "PER" THEN "SUPER_PER_CHEAP" ELSE "SUPER_PSR_CHEAP")
      [] OTHER -> (IF metric_type = "PER" THEN "PER_CHEAP" ELSE "PSR_CHEAP")

\* C10: for a non-null metric value, the flags are "median not null and value
\* below it" and combo, category and is_strong follow the first matching row.
C10_ClassificationTable ==
    (sig_args # None /\ evaluation # None /\ sig_args.metric_value # NoValue) =>
        LET v == sig_args.metric_value
            m == sig_args.medians
            u1w == m.median_1w # NoValue /\ 2 * v < m.median_1w
            u3m == m.median_3m # NoValue /\ 2 * v < m.median_3m
            u1y == m.median_1y # NoValue /\ 2 * v < m.median_1y
            combo == TableCombo(u1w, u3m, u1y)
        IN /\ evaluation.under_1w = u1w
           /\ evaluation.under_3m = u3m
           /\ evaluation.under_1y = u1y
           /\ evaluation.combo = combo
           /\ evaluation.category = TableCategory(sig_args.metric_type, combo)
           /\ evaluation.is_strong = (combo = "1Y+3M+1W")
           /\ evaluation.metric_value = v

\* the second example of section 8: under 3M and 1Y but not 1W gives "1Y+3M"
C10_Witness ==
    /\ sig_args # None
    /\ evaluation # None
    /\ sig_args.metric_value # NoValue
    /\ sig_args.medians.median_1w # NoValue
    /\ 2 * sig_args.metric_value >= sig_args.medians.median_1w
    /\ evaluation.combo = "1Y+3M"
    /\ evaluation.category = "PER_CHEAP"
    /\ ~evaluation.is_strong

\* the number of null medians handed to evaluate_signal
NullMedians(medians) ==
    Cardinality({ w \in {"1w", "3m", "1y"} :
                    \/ w = "1w" /\ medians.median_1w = NoValue
                    \/ w = "3m" /\ medians.median_3m = NoValue
                    \/ w = "1y" /\ medians.median_1y = NoValue })

\* the number of windows whose median is not null and lies above the value
WindowsAbove(metric_value, medians) ==
    Cardinality({ w \in {"1w", "3m", "1y"} :
                    \/ w = "1w" /\ medians.median_1w # NoValue /\ 2 * metric_value < medians.median_1w
                    \/ w = "3m" /\ medians.median_3m # NoValue /\ 2 * metric_value < medians.median_3m
                    \/ w = "1y" /\ medians.median_1y # NoValue /\ 2 * metric_value < medians.median_1y })

\* C11: a null median never sets its under flag, a category needs two windows
\* whose medians are not null and above the value (so two or three null
\* medians give no category), and a null metric value gives all flags false,
\* no combo, no category and is_strong false.
C11_NullHandling ==
    (sig_args # None /\ evaluation # None) =>
        LET m == sig_args.medians
        IN /\ m.median_1w = NoValue => ~evaluation.under_1w
           /\ m.median_3m = NoValue => ~evaluation.under_3m
           /\ m.median_1y = NoValue => ~evaluation.under_1y
           /\ evaluation.category # Null =>
                 /\ sig_args.metric_value # NoValue
                 /\ WindowsAbove(sig_args.metric_value, m) >= 2
           /\ NullMedians(m) >= 2 => evaluation.category = Null
           /\ sig_args.metric_value = NoValue =>
                 /\ ~evaluation.under_1w
                 /\ ~evaluation.under_3m
                 /\ ~evaluation.under_1y
                 /\ evaluation.combo = Null
                 /\ evaluation.category = Null
                 /\ evaluation.is_strong = FALSE

\* the 1W median is null and the other two windows give the category
C11_Witness ==
    /\ sig_args # None
    /\ evaluation # None
    /\ sig_args.medians.median_1w = NoValue
    /\ ~evaluation.under_1w
    /\ evaluation.combo = "1Y+3M"
    /\ evaluation.category # Null

\* the number of under flags of an evaluation or a state that are true
FlagsSet(x) ==
    (IF x.under_1w THEN 1 ELSE 0) + (IF x.under_3m THEN 1 ELSE 0) + (IF x.under_1y THEN 1 ELSE 0)

FlagsConsistent(x) ==
    /\ (x.category # Null) <=> (FlagsSet(x) >= 2)
    /\ (x.combo # Null) <=> (x.category # Null)
    /\ x.is_strong <=> (FlagsSet(x) = 3)

\* C12: in every evaluation returned by evaluate_signal and every state built
\* from one, category is set iff at least two under flags are true, combo is
\* set iff category is, and is_strong is true iff all three flags are.
C12_CategoryIffTwoFlags ==
    /\ evaluation # None => FlagsConsistent(evaluation)
    /\ built_state # None => FlagsConsistent(built_state)

\* a state built with under_1y and under_1w only: a category, not strong
C12_Witness ==
    /\ built_state # None
    /\ built_state.under_1y
    /\ built_state.under_1w
    /\ ~built_state.under_3m
    /\ built_state.category # Null
    /\ built_state.combo = "1Y+1W"
    /\ ~built_state.is_strong

\* ---- _dispatch_with_cooldown (SpecDispatch)

SameKey(entry, message) ==
    /\ entry.ticker = message.ticker
    /\ entry.category = message.category
    /\ entry.condition_key = message.condition_key

Instant(timestamp) == timestamp.clock - timestamp.offset

\* the log holds an entry of the candidate's key with sent_at >= now - cooldown_hours
RepeatedWithin(log, message, now_iso, cooldown_hours) ==
    \E e \in log : /\ SameKey(e, message)
                   /\ Instant(e.sent_at) >= Instant(now_iso) - cooldown_hours

\* the step is a call of _dispatch_with_cooldown that read the log and had a valid cooldown
DispatchRan ==
    /\ last_dispatch' # None
    /\ last_dispatch'.decision # None
    /\ last_dispatch'.cooldown_hours > 0

NormalSentWithin(log, message, now_iso, cooldown_hours) ==
    \E e \in log : /\ e.ticker = message.ticker
                   /\ ~e.is_strong
                   /\ e.condition_key.prefix = message.condition_key.prefix
                   /\ Instant(e.sent_at) >= Instant(now_iso) - cooldown_hours

\* C2 as stated: a strong candidate that follows a non-strong notification of
\* the same ticker and metric type inside the window is allowed for every
\* content of the rest of the log.
C2_EscalationAlwaysAllowed ==
    [][DispatchRan =>
         LET d == last_dispatch'
         IN (d.message.is_strong
             /\ NormalSentWithin(notification_log, d.message, d.now_iso, d.cooldown_hours))
            => d.decision.should_send
      ]_vars

\* C2 (amended): such a strong candidate is allowed, as a normal-to-strong
\* transition, provided no entry of its own (ticker, category, condition_key)
\* lies in the window.
C2_EscalationUnlessRepeated ==
    [][DispatchRan =>
         LET d == last_dispatch'
         IN (d.message.is_strong
             /\ NormalSentWithin(notification_log, d.message, d.now_iso, d.cooldown_hours)
             /\ ~RepeatedWithin(notification_log, d.message, d.now_iso, d.cooldown_hours))
            => d.decision = CooldownEscalated
      ]_vars

\* a strong notification was sent right after a normal one of the same ticker
C2_Witness ==
    /\ last_dispatch # None
    /\ last_dispatch.message.is_strong
    /\ last_dispatch.decision = CooldownEscalated
    /\ last_dispatch.ret = <<1, 0>>
    /\ \E e \in notification_log :
         /\ e.ticker = last_dispatch.message.ticker
         /\ ~e.is_strong
         /\ Instant(e.sent_at) >= Instant(last_dispatch.now_iso) - last_dispatch.cooldown_hours

\* every entry of the log before the step is in the log after it, as it was,
\* and the step adds at most one entry
LogKept ==
    /\ notification_log \subseteq notification_log'
    /\ Cardinality(notification_log') <= Cardinality(notification_log) + 1
    /\ \A e \in notification_log' \ notification_log :
         \A f \in notification_log : f.entry_id # e.entry_id

LogKeptInRuns == [][LogKept]_vars

\* ---- run_daily_pipeline (SpecDaily, SpecStreak)

\* active, channel-enabled and timing-eligible, as section 4.1 words it for
\* the channel "DISCORD" of the runs drawn
EligibleItem(item, config) ==
    /\ item.is_active
    /\ item.notify_channel \in {"DISCORD", "BOTH"}
    /\ \/ config.execution_mode = "ALL" /\ item.notify_timing \in {"IMMEDIATE", "AT_21"}
       \/ config.execution_mode = "DAILY" /\ item.notify_timing = "IMMEDIATE"
       \/ config.execution_mode = "AT_21" /\ item.notify_timing = "AT_21"

\* the step is one call of _process_single_ticker
ItemProcessed == Len(run'.visited) = Len(run.visited) + 1

\* C3: a run never raises, whatever fails inside the processing of a ticker;
\* at every point of the loop exactly the eligible items met so far have been
\* processed, in order, and when the run returns processed_tickers is the
\* number of eligible items of the watchlist.
C3_FailureIsolation ==
    /\ run.status # "raised"
    /\ run.status \in {"running", "returned"} =>
         LET eligible == { i \in 1..(run.index - 1) :
                             EligibleItem(run.watchlist_items[i], run.config) }
         IN /\ { run.visited[k] : k \in DOMAIN run.visited } = eligible
            /\ Len(run.visited) = Cardinality(eligible)
            /\ \A k \in 1..(Len(run.visited) - 1) : run.visited[k] < run.visited[k + 1]
            /\ run.result.processed_tickers = Cardinality(eligible)
    /\ run.status = "returned" => run.index = Len(run.watchlist_items) + 1

\* a run returned after its first ticker failed and its second ticker got its
\* signal state persisted
C3_Witness ==
    /\ run.status = "returned"
    /\ run.visited = <<1, 2>>
    /\ run.result.processed_tickers = 2
    /\ run.result.errors = 1
    /\ last_item # None
    /\ ~last_item.raised
    /\ last_item.state # None
    /\ last_item.state \in signal_states

InvalidConfig(config) ==
    \/ ~(config.window_1w_days <= config.window_3m_days
         /\ config.window_3m_days <= config.window_1y_days)
    \/ config.cooldown_hours <= 0

\* C4 as stated: a run whose windows violate 1w <= 3m <= 1y or whose
\* cooldown_hours is <= 0 writes no metric, median, signal-state or log record,
\* sends no message, and does not return as if a ticker had been processed.
C4_ConfigErrorsFatal ==
    [][(run.status = "running" /\ InvalidConfig(run.config)) =>
         /\ UNCHANGED <<daily_metrics, metric_medians, signal_states, notification_log, outbox>>
         /\ run'.status = "returned" => run'.result.processed_tickers = 0
      ]_vars

\* C7 as stated: after a signal state was persisted for a ticker, get_latest
\* returns that state, for every prior content of the store and every trade_date.
C7_LatestIsWritten ==
    (last_item # None /\ last_item.state # None) =>
        SignalState_get_latest(signal_states, last_item.watch_item.ticker) = last_item.state

\* C7 (amended): get_latest returns the state just persisted provided no state
\* stored for the ticker before the step has a later trade_date.
C7_LatestWhenNotOlder ==
    [][(/\ ItemProcessed
        /\ last_item'.state # None
        /\ \A s \in signal_states :
             s.ticker = last_item'.state.ticker =>
                 s.trade_date <= last_item'.state.trade_date)
       => SignalState_get_latest(signal_states', last_item'.watch_item.ticker)
              = last_item'.state
      ]_vars

\* a state was persisted on top of an older one of the same ticker and is the latest
C7_Witness ==
    /\ last_item # None
    /\ last_item.state # None
    /\ \E s \in signal_states : /\ s.ticker = last_item.state.ticker
                                /\ s.trade_date < last_item.state.trade_date
    /\ SignalState_get_latest(signal_states, last_item.watch_item.ticker) = last_item.state

\* C8 as stated: processing the same ticker again for the same trade_date with
\* the same config and the same snapshot leaves the daily metrics, the medians
\* and the signal states as the first processing left them.
C8_RepeatIdempotent ==
    [][(/\ ItemProcessed
        /\ last_item # None
        /\ last_item'.watch_item = last_item.watch_item
        /\ last_item'.config = last_item.config
        /\ last_item'.snapshot = last_item.snapshot)
       => UNCHANGED <<daily_metrics, metric_medians, signal_states>>
      ]_vars

\* the faults of a call that make its _dispatch_with_cooldown raise
DispatchFaultsOf(faults) == faults \cap {"log_list", "send", "log_append"}

\* the log holds a data-unknown entry of the ticker sent within the cooldown window
UnknownSentWithin(log, ticker, config) ==
    \E e \in log : /\ e.ticker = normalize_ticker(ticker)
                   /\ e.category = "DATA_UNKNOWN"
                   /\ Instant(e.sent_at) >= Instant(config.now_iso) - config.cooldown_hours

\* the log holds a data-unknown entry of the ticker for the field
\* "market_data_source" sent within the cooldown window
FetchFailureSentWithin(log, ticker, config) ==
    \E e \in log : /\ e.ticker = normalize_ticker(ticker)
                   /\ e.category = "DATA_UNKNOWN"
                   /\ e.condition_key = [prefix |-> "UNKNOWN", rest |-> <<"market_data_source">>]
                   /\ Instant(e.sent_at) >= Instant(config.now_iso) - config.cooldown_hours

\* the step appended one data-unknown entry of the ticker, stamped now_iso,
\* and delivered a data-unknown body that names the ticker
UnknownNotified(ticker, config) ==
    /\ Cardinality(notification_log') = Cardinality(notification_log) + 1
    /\ notification_log \subseteq notification_log'
    /\ \E e \in notification_log' \ notification_log :
         /\ e.ticker = normalize_ticker(ticker)
         /\ e.category = "DATA_UNKNOWN"
         /\ e.sent_at = config.now_iso
    /\ \E body \in outbox' : /\ body.head = "DATA_UNKNOWN"
                             /\ body.ticker = normalize_ticker(ticker)

\* C13: when fetch_snapshot raises MarketDataError the ticker counts
\* processed=1 and errors=1, no metric, medians or signal-state record is
\* written or changed, and the data-unknown notification of the ticker goes
\* through the cooldown gate: skipped when one was sent inside the window,
\* otherwise handed to the sender and, once sent, logged.
C13_FetchFailure ==
    [][(ItemProcessed /\ "fetch_market_data" \in last_item'.faults) =>
         LET it == last_item'
             ticker == it.watch_item.ticker
         IN /\ it.result.processed_tickers = 1
            /\ it.result.errors = 1
            /\ UNCHANGED <<daily_metrics, metric_medians, signal_states>>
            /\ (it.config.cooldown_hours > 0 /\ "log_list" \notin it.faults) =>
                 IF FetchFailureSentWithin(notification_log, ticker, it.config)
                 THEN /\ it.result = PipelineResult(1, 0, 1, 1)
                      /\ UNCHANGED <<notification_log, outbox>>
                 ELSE IF "send" \in it.faults
                 THEN /\ it.result = PipelineResult(1, 0, 0, 1)
                      /\ UNCHANGED <<notification_log, outbox>>
                 ELSE IF "log_append" \in it.faults
                 THEN /\ it.result = PipelineResult(1, 0, 0, 1)
                      /\ notification_log' = notification_log
                      /\ \E body \in outbox' : /\ body.head = "DATA_UNKNOWN"
                                               /\ body.ticker = normalize_ticker(ticker)
                 ELSE /\ it.result = PipelineResult(1, 1, 0, 1)
                      /\ UnknownNotified(ticker, it.config)
      ]_vars

\* a fetch failure was notified and counted, and the ticker has no metric row
\* for the trade date of the run
C13_Witness ==
    /\ last_item # None
    /\ last_item.faults = {"fetch_market_data"}
    /\ last_item.result = PipelineResult(1, 1, 0, 1)
    /\ \E e \in notification_log : /\ e.ticker = normalize_ticker(last_item.watch_item.ticker)
                                  /\ e.category = "DATA_UNKNOWN"
    /\ ~\E r \in daily_metrics : /\ r.ticker = normalize_ticker(last_item.watch_item.ticker)
                                /\ r.trade_date = last_item.config.trade_date

\* a required field of the metric type or the earnings date is missing
MissingData(item, snapshot) ==
    \/ snapshot.close_price = NoValue
    \/ item.metric_type = "PER" /\ (snapshot.eps_forecast = NoValue \/ snapshot.eps_forecast <= 0)
    \/ item.metric_type = "PSR" /\ (snapshot.sales_forecast = NoValue \/ snapshot.sales_forecast <= 0)
    \/ snapshot.earnings_date = Null

\* the row is the metric record of (ticker, trade_date) taken from the snapshot
MetricRowOf(row, item, snapshot, config) ==
    /\ row.ticker = normalize_ticker(item.ticker)
    /\ row.trade_date = config.trade_date
    /\ row.close_price = snapshot.close_price
    /\ row.eps_forecast = snapshot.eps_forecast
    /\ row.sales_forecast = snapshot.sales_forecast

\* the step is a call of _process_single_ticker that got its snapshot and
\* stored the metric row, for a snapshot with missing data
MissingDataStep ==
    /\ ItemProcessed
    /\ last_item'.faults \cap {"fetch", "fetch_market_data", "metrics_upsert"} = {}
    /\ MissingData(last_item'.watch_item, last_item'.snapshot)

\* C14: with a required field or the earnings date missing, the metric record
\* of (ticker, trade_date) is persisted, the medians and the signal states are
\* left as they were, the data-unknown notification goes through the cooldown
\* gate (sent and logged when none was sent inside the window), and the call
\* returns processed=1 and errors=0 with one notification sent or skipped.
C14_MissingData ==
    [][MissingDataStep =>
         LET it == last_item'
             ticker == it.watch_item.ticker
         IN /\ \E row \in daily_metrics' :
                 /\ MetricRowOf(row, it.watch_item, it.snapshot, it.config)
                 /\ daily_metrics' \ {row}
                      = { r \in daily_metrics : ~(r.ticker = row.ticker /\ r.trade_date = row.trade_date) }
            /\ UNCHANGED <<metric_medians, signal_states>>
            /\ it.state = None
            /\ it.result.processed_tickers = 1
            /\ ~it.raised =>
                 /\ it.result.errors = 0
                 /\ it.result.sent_notifications + it.result.skipped_notifications = 1
            /\ (it.config.cooldown_hours > 0 /\ DispatchFaultsOf(it.faults) = {}) =>
                 /\ ~it.raised
                 /\ ~UnknownSentWithin(notification_log, ticker, it.config) =>
                      /\ it.result = PipelineResult(1, 1, 0, 0)
                      /\ UnknownNotified(ticker, it.config)
                 /\ it.result.skipped_notifications = 1 => UNCHANGED <<notification_log, outbox>>
      ]_vars

\* a complete snapshot without an earnings date: the metric row holds a PER,
\* the notification was sent, and no medians exist for the trade date
C14_Witness ==
    /\ last_item # None
    /\ last_item.faults = {}
    /\ last_item.snapshot.earnings_date = Null
    /\ last_item.watch_item.metric_type = "PER"
    /\ last_item.result = PipelineResult(1, 1, 0, 0)
    /\ \E r \in daily_metrics : /\ r.ticker = normalize_ticker(last_item.watch_item.ticker)
                               /\ r.trade_date = last_item.config.trade_date
                               /\ r.per_value # NoValue
    /\ ~\E m \in metric_medians : /\ m.ticker = normalize_ticker(last_item.watch_item.ticker)
                                 /\ m.trade_date = last_item.config.trade_date

\* the step is a call of _process_single_ticker, with a valid config, in which
\* sender.send was called and raised: nothing else can raise in the call
SenderFailedStep ==
    /\ run.status = "running"
    /\ run.index <= Len(run.watchlist_items)
    /\ EligibleItem(run.watchlist_items[run.index], run.config)
    /\ last_item' # None
    /\ "send" \in last_item'.faults
    /\ last_item'.faults \subseteq {"send", "fetch_market_data"}
    /\ ~InvalidConfig(last_item'.config)
    /\ last_item'.raised

\* C15: when sender.send raises, the ticker counts processed=1, errors=1,
\* sent=0 and skipped=0, no log entry is appended and nothing is delivered,
\* and the run goes on with the next item of the watchlist.
C15_SenderFailure ==
    [][SenderFailedStep =>
         /\ last_item'.result = PipelineResult(1, 0, 0, 1)
         /\ UNCHANGED <<notification_log, outbox>>
         /\ run'.status = "running"
         /\ run'.index = run.index + 1
         /\ run'.result = PipelineResult_merge(run.result, PipelineResult(1, 0, 0, 1))
      ]_vars

\* the sender failed on the signal notification of the first of two tickers:
\* its state is stored, nothing is logged, and the second ticker is next
C15_Witness ==
    /\ last_item # None
    /\ last_item.faults = {"send"}
    /\ last_item.raised
    /\ last_item.result = PipelineResult(1, 0, 0, 1)
    /\ run.status = "running"
    /\ run.index = 2
    /\ Len(run.watchlist_items) = 2
    /\ Eligible(run.watchlist_items[2], run.config)
    /\ notification_log = {}

SameClass(a, b) ==
    /\ a.category = b.category
    /\ a.combo = b.combo
    /\ a.is_strong = b.is_strong

\* the business day that lies n business days before day d
RECURSIVE BusinessDaysBefore(_, _)
BusinessDaysBefore(d, n) ==
    IF n = 0 THEN d ELSE BusinessDaysBefore(PreviousBusinessDay(d), n - 1)

\* a state of the ticker and classification of state is persisted for day d
HeldOn(state, d) ==
    \E s \in signal_states : /\ s.ticker = state.ticker
                             /\ s.trade_date = d
                             /\ SameClass(s, state)

\* streak_days = k >= 1: the classification is persisted on each of the k - 1
\* business days before the trade_date and not on the one before those
StreakMeaning(state) ==
    state.streak_days >= 1 =>
        /\ \A n \in 1..(state.streak_days - 1) :
             HeldOn(state, BusinessDaysBefore(state.trade_date, n))
        /\ ~HeldOn(state, BusinessDaysBefore(state.trade_date, state.streak_days))

\* C9 as stated: under runs with strictly increasing trade dates from an empty
\* state store, every persisted streak_days counts the consecutive business
\* days on which the same classification is persisted.
C9_StreakMeaning ==
    history.increasing => \A s \in signal_states : StreakMeaning(s)

\* C9 (amended): the same, provided every trade date of the runs is a business
\* day (Mon-Fri).
C9_StreakMeaningOnBusinessDays ==
    (history.increasing /\ \A d \in history.trade_dates : Weekday(d) \in 0..4) =>
        \A s \in signal_states : StreakMeaning(s)

\* a streak of 2 persisted on a Monday that follows the Friday of its first day
C9_Witness ==
    /\ history.increasing
    /\ \A d \in history.trade_dates : Weekday(d) \in 0..4
    /\ \E s \in signal_states : /\ s.streak_days = 2
                                /\ Weekday(s.trade_date) = 0
                                /\ HeldOn(s, s.trade_date - 3)

\* ---- the gates of the three pipelines (SpecJobs)

\* the channel gate as section 4.1 words it
ChannelOpen(item, channel) ==
    \/ channel = "DISCORD" /\ item.notify_channel \in {"DISCORD", "BOTH"}
    \/ channel = "LINE" /\ item.notify_channel \in {"LINE", "BOTH"}

\* the timing gate as section 4.1 words it
TimingOpen(item, mode) ==
    \/ mode = "ALL" /\ item.notify_timing \in {"IMMEDIATE", "AT_21"}
    \/ mode = "DAILY" /\ item.notify_timing = "IMMEDIATE"
    \/ mode = "AT_21" /\ item.notify_timing = "AT_21"

\* the step is an iteration of the loop of run_daily_pipeline
DailyBodyStep ==
    /\ run.pipeline = "daily"
    /\ run.status = "running"
    /\ run.index <= Len(run.watchlist_items)

\* the step is an iteration of the loop of _run_earnings_pipeline
EarningsBodyStep ==
    /\ run.pipeline \in {"weekly_earnings", "tomorrow_earnings"}
    /\ run.status = "running"
    /\ run.index <= Len(run.entries)

\* the active items of the watchlist that carry the ticker
ActiveItemsOf(ticker) ==
    { run.watchlist_items[i] : i \in { j \in DOMAIN run.watchlist_items :
                                          /\ run.watchlist_items[j].is_active
                                          /\ run.watchlist_items[j].ticker = ticker } }

\* the iteration fetched, stored, sent and counted nothing
Untouched ==
    /\ UNCHANGED <<daily_metrics, metric_medians, signal_states, notification_log, outbox>>
    /\ UNCHANGED last_item
    /\ run'.result = run.result
    /\ run'.visited = run.visited

\* C17: an item whose notify_channel is OFF, or is not DISCORD/BOTH in a
\* DISCORD run, or not LINE/BOTH in a LINE run, is passed over in the daily
\* and in both earnings pipelines with nothing fetched, stored, sent or
\* counted; every item processed passes the channel gate, and an active item
\* that passes the channel and the timing gate is processed.
C17_ChannelGate ==
    [][/\ DailyBodyStep =>
            LET item == run.watchlist_items[run.index]
            IN /\ ~ChannelOpen(item, run.config.channel) => Untouched
               /\ ItemProcessed => /\ last_item'.watch_item = item
                                   /\ ChannelOpen(item, run.config.channel)
               /\ (/\ item.is_active
                   /\ ChannelOpen(item, run.config.channel)
                   /\ TimingOpen(item, run.config.execution_mode)) => ItemProcessed
       /\ EarningsBodyStep =>
            LET listed == ActiveItemsOf(run.entries[run.index].ticker)
            IN /\ (\A item \in listed : ~ChannelOpen(item, run.config.channel)) => Untouched
               /\ ItemProcessed => /\ last_item'.watch_item \in listed
                                   /\ ChannelOpen(last_item'.watch_item, run.config.channel)
               /\ (/\ listed # {}
                   /\ \A item \in listed : /\ ChannelOpen(item, run.config.channel)
                                            /\ TimingOpen(item, run.config.execution_mode))
                  => ItemProcessed
      ]_vars

\* a LINE run of an earnings pipeline returned: the row of T1, listed for
\* DISCORD only, was passed over and the row of T2 (BOTH) was notified
C17_Witness ==
    /\ run.status = "returned"
    /\ run.pipeline = "weekly_earnings"
    /\ run.config.channel = "LINE"
    /\ Len(run.entries) = 2
    /\ run.entries[1].ticker = "T1"
    /\ ActiveItemsOf("T1") # {}
    /\ \A item \in ActiveItemsOf("T1") : /\ item.notify_channel = "DISCORD"
                                          /\ item.notify_timing = "IMMEDIATE"
    /\ run.config.execution_mode = "ALL"
    /\ run.visited = <<2>>
    /\ run.result = PipelineResult(1, 1, 0, 0)
    /\ last_item.watch_item.notify_channel = "BOTH"
    /\ Cardinality(notification_log) = 1

\* C18: an item whose notify_timing is OFF is passed over in every execution
\* mode, DAILY processes IMMEDIATE items only, AT_21 processes AT_21 items
\* only and ALL processes both, in the daily and in both earnings pipelines.
C18_TimingGate ==
    [][/\ DailyBodyStep =>
            LET item == run.watchlist_items[run.index]
            IN /\ ~TimingOpen(item, run.config.execution_mode) => Untouched
               /\ ItemProcessed => /\ last_item'.watch_item = item
                                   /\ TimingOpen(item, run.config.execution_mode)
               /\ (/\ item.is_active
                   /\ ChannelOpen(item, run.config.channel)
                   /\ TimingOpen(item, run.config.execution_mode)) => ItemProcessed
       /\ EarningsBodyStep =>
            LET listed == ActiveItemsOf(run.entries[run.index].ticker)
            IN /\ (\A item \in listed : ~TimingOpen(item, run.config.execution_mode)) => Untouched
               /\ ItemProcessed => /\ last_item'.watch_item \in listed
                                   /\ TimingOpen(last_item'.watch_item, run.config.execution_mode)
               /\ (/\ listed # {}
                   /\ \A item \in listed : /\ ChannelOpen(item, run.config.channel)
                                            /\ TimingOpen(item, run.config.execution_mode))
                  => ItemProcessed
      ]_vars

\* an AT_21 run of the weekly earnings pipeline returned: the row of T1
\* (IMMEDIATE) was passed over and the row of T2 (AT_21) was notified
C18_Witness ==
    /\ run.status = "returned"
    /\ run.pipeline = "weekly_earnings"
    /\ run.config.execution_mode = "AT_21"
    /\ run.config.channel = "DISCORD"
    /\ Len(run.entries) = 2
    /\ run.entries[1].ticker = "T1"
    /\ ActiveItemsOf("T1") # {}
    /\ \A item \in ActiveItemsOf("T1") : /\ item.notify_channel = "DISCORD"
                                          /\ item.notify_timing = "IMMEDIATE"
    /\ run.visited = <<2>>
    /\ run.result = PipelineResult(1, 1, 0, 0)
    /\ last_item.watch_item.notify_timing = "AT_21"

\* C19: in both earnings pipelines a selected row whose ticker no active
\* watch item carries is passed over with nothing sent, logged or counted,
\* and a row that is processed is processed for an active watch item of its
\* ticker; the daily pipeline passes over every inactive item.
C19_ActiveWatchTargetsOnly ==
    [][/\ EarningsBodyStep =>
            LET entry == run.entries[run.index]
            IN /\ ActiveItemsOf(entry.ticker) = {} => Untouched
               /\ ItemProcessed =>
                    /\ last_item'.entry = entry
                    /\ last_item'.watch_item \in ActiveItemsOf(entry.ticker)
                    /\ last_item'.watch_item.is_active
                    /\ last_item'.watch_item.ticker = entry.ticker
                    /\ \A e \in notification_log' \ notification_log : e.ticker = entry.ticker
       /\ DailyBodyStep =>
            LET item == run.watchlist_items[run.index]
            IN /\ ~item.is_active => Untouched
               /\ ItemProcessed => last_item'.watch_item.is_active
      ]_vars

\* a weekly run returned: the row of T2, an active watch item, was notified;
\* the row of T1, listed only as inactive, was not
C19_Witness ==
    /\ run.status = "returned"
    /\ run.pipeline = "weekly_earnings"
    /\ Len(run.entries) = 2
    /\ run.entries[1].ticker = "T1"
    /\ run.entries[2].ticker = "T2"
    /\ ActiveItemsOf("T1") = {}
    /\ \E i \in DOMAIN run.watchlist_items : /\ run.watchlist_items[i].ticker = "T1"
                                              /\ ~run.watchlist_items[i].is_active
    /\ run.visited = <<2>>
    /\ run.result = PipelineResult(1, 1, 0, 0)
    /\ \A e \in notification_log : e.ticker = "T2"
    /\ Cardinality(notification_log) = 1

\* ---- FallbackMarketDataSource.fetch_snapshot (SpecFallback)

\* the sources of the call that return a snapshot when called
Succeeding == { i \in DOMAIN fallback.sources : fallback.sources[i].outcome = "snapshot" }

\* C20: the sources are called in list order, each at most once; the call
\* returns the snapshot of the first source that succeeds and calls no source
\* after it; a source that fails, with MarketDataFetchError or with another
\* exception, only moves the call on to the next source, and the call raises
\* only after every source was called and failed.
C20_FallbackOrder ==
    /\ \A k \in DOMAIN fallback.calls : fallback.calls[k] = k
    /\ Len(fallback.calls) <= Len(fallback.sources)
    /\ fallback.status = "running" =>
         /\ Len(fallback.calls) = fallback.index - 1
         /\ \A i \in Succeeding : i >= fallback.index
    /\ fallback.status = "returned" =>
         /\ Succeeding # {}
         /\ LET first == CHOOSE i \in Succeeding : \A j \in Succeeding : i <= j
            IN /\ Len(fallback.calls) = first
               /\ fallback.snapshot.source = fallback.sources[first].source_name
               /\ fallback.snapshot.ticker = fallback.ticker
    /\ fallback.status = "raised" =>
         /\ Succeeding = {}
         /\ Len(fallback.calls) = Len(fallback.sources)

\* the first source raised another exception, the second MarketDataFetchError,
\* and the snapshot of the third was returned
C20_Witness ==
    /\ fallback.status = "returned"
    /\ Len(fallback.sources) = 3
    /\ fallback.sources[1].outcome = "Exception"
    /\ fallback.sources[2].outcome = "MarketDataFetchError"
    /\ fallback.calls = <<1, 2, 3>>
    /\ fallback.snapshot.source = fallback.sources[3].source_name
    /\ Len(fallback.errors) = 2

\* the reason recorded for source i of the call: str(exc) of the
\* MarketDataFetchError, or "<source_name> failed for <ticker>: <exc>"
ReasonOf(i) ==
    <<fallback.sources[i].source_name, fallback.ticker, fallback.sources[i].outcome>>

RowValue(i) ==
    IF calc.args.metric_type = "PER" THEN calc.args.latest_first_metrics[i].per_value
    ELSE calc.args.latest_first_metrics[i].psr_value

\* the rows of the history whose value is not null
ValuedRows == { i \in DOMAIN calc.args.latest_first_metrics : RowValue(i) # NoValue }

\* the window_size most recent rows with a value (the history is newest first)
WindowRows(window_size) ==
    { i \in ValuedRows : Cardinality({ j \in ValuedRows : j < i }) < window_size }

\* the k-th smallest value among the rows of the set
OrderStatistic(rows, k) ==
    CHOOSE v \in { RowValue(i) : i \in rows } :
        /\ Cardinality({ i \in rows : RowValue(i) < v }) < k
        /\ k <= Cardinality({ i \in rows : RowValue(i) <= v })

\* what the claim states for one window: null, or the (doubled) median
StatedMedian(window_size) ==
    IF Cardinality(ValuedRows) < window_size THEN NoValue
    ELSE LET rows == WindowRows(window_size)
         IN IF window_size % 2 = 1
            THEN 2 * OrderStatistic(rows, (window_size + 1) \div 2)
            ELSE OrderStatistic(rows, window_size \div 2)
                 + OrderStatistic(rows, window_size \div 2 + 1)

\* C22: each of the three medians returned by calculate_metric_medians is null
\* when fewer than window_size rows of the newest-first history hold a value of
\* the requested metric type, and otherwise the median of the window_size most
\* recent such values (the mean of the two middle ones for an even window);
\* rows without a value are skipped and not counted.
C22_WindowMedian ==
    (calc # None /\ calc.fn = "calculate_metric_medians" /\ calc.done) =>
        /\ ~calc.result.raised
        /\ calc.result.value.median_1w = StatedMedian(calc.args.windows[1])
        /\ calc.result.value.median_3m = StatedMedian(calc.args.windows[2])
        /\ calc.result.value.median_1y = StatedMedian(calc.args.windows[3])

\* a PER history (1, null, 2) read with windows (2, 2, 3): the null row is
\* skipped, the 1W median is 1.5, and the 1Y median is null for lack of a
\* third value
C22_Witness ==
    /\ calc # None /\ calc.fn = "calculate_metric_medians" /\ calc.done
    /\ calc.args.metric_type = "PER"
    /\ Len(calc.args.latest_first_metrics) = 3
    /\ calc.args.latest_first_metrics[1].per_value = 1
    /\ calc.args.latest_first_metrics[2].per_value = NoValue
    /\ calc.args.latest_first_metrics[2].psr_value = 3
    /\ calc.args.latest_first_metrics[3].per_value = 2
    /\ calc.args.windows = <<2, 2, 3>>
    /\ calc.result.value.median_1w = 3
    /\ calc.result.value.median_1y = NoValue

\* value is numerator / denominator
IsRatio(value, numerator, denominator) == value # NoValue /\ value * denominator = numerator

\* a forecast that is present and > 0
Positive(forecast) == forecast # NoValue /\ forecast > 0

PermutationsOf(seq) ==
    { [i \in DOMAIN seq |-> seq[order[i]]] :
        order \in { f \in [DOMAIN seq -> DOMAIN seq] :
                      \A a, b \in DOMAIN seq : a # b => f[a] # f[b] } }

\* C24: the decision of evaluate_cooldown (should_send and reason, or the
\* ValueError) is the same for every permutation of recent_entries, and a
\* repeated call with the same arguments returns the same decision.
C24_CooldownOrderIndependent ==
    (calc # None /\ calc.fn = "evaluate_cooldown" /\ calc.done) =>
        /\ \A entries \in PermutationsOf(calc.args.recent_entries) :
              CooldownDecisionOf(calc.args, entries) = calc.result
        /\ calc.again # None => calc.again = calc.result

\* a strong candidate, a list that holds a non-strong entry of the same metric
\* before an exact repeat, both inside the window: the decision is the
\* suppression, as it is with the two entries swapped
C24_Witness ==
    /\ calc # None /\ calc.fn = "evaluate_cooldown" /\ calc.done
    /\ calc.args.candidate.is_strong
    /\ calc.args.cooldown_hours = 1
    /\ Len(calc.args.recent_entries) = 2
    /\ calc.args.recent_entries[1] =
         CooldownEntry("T1", [category |-> "PER_CHEAP",
                              condition_key |-> [prefix |-> "PER", rest |-> <<"1Y+3M">>],
                              is_strong |-> FALSE], 2)
    /\ calc.args.recent_entries[2].category = calc.args.candidate.category
    /\ calc.args.recent_entries[2].sent_at.clock = 2
    /\ calc.result = CooldownBlocked
    /\ calc.again = CooldownBlocked

\* ---- select_next_week_entries (SpecEarnings)

\* the Monday of the week that holds day d
MondayOf(d) == CHOOSE m \in (d - 6)..d : Weekday(m) = 0

\* how often a row occurs in a list
Occurrences(seq, row) == Cardinality({ i \in DOMAIN seq : seq[i] = row })

\* (earnings_date, ticker) of a is not after that of b
DateTickerOrdered(a, b) ==
    \/ a.earnings_date < b.earnings_date
    \/ a.earnings_date = b.earnings_date /\ TickerRank(a.ticker) <= TickerRank(b.ticker)

\* C25: for today on any weekday, select_next_week_entries returns exactly
\* the entries (each as often as it was given) whose earnings_date lies from
\* the Monday of today's week plus 7 days through 6 days after that, both
\* inclusive, in (earnings_date, ticker) order; entries of the week of today,
\* of earlier weeks and of later weeks are left out.
C25_NextWeekSelection ==
    (calc # None /\ calc.fn = "select_next_week_entries" /\ calc.done) =>
        LET next_monday == MondayOf(calc.args.today) + 7
            selected == calc.result.selected
        IN /\ \A row \in SelectionRows :
                Occurrences(selected, row) =
                    IF next_monday <= row.earnings_date /\ row.earnings_date <= next_monday + 6
                    THEN Occurrences(calc.args.entries, row)
                    ELSE 0
           /\ \A i \in DOMAIN selected : selected[i] \in SelectionRows
           /\ \A i, j \in DOMAIN selected : i < j => DateTickerOrdered(selected[i], selected[j])

\* today is a Wednesday; the calendar lists the Sunday of next week before its
\* Monday: both are selected, the Monday first
C25_Witness ==
    /\ calc # None /\ calc.fn = "select_next_week_entries" /\ calc.done
    /\ calc.args.today = 9
    /\ calc.args.entries = <<EarningsEntry("T1", 20, Null), EarningsEntry("T2", 14, Null)>>
    /\ calc.result.selected = <<EarningsEntry("T2", 14, Null), EarningsEntry("T1", 20, Null)>>

\* ---- WatchlistService.add_item / delete_item (SpecWatchlist)

\* the calls that have finished
FinishedCallers == { c \in Callers : callers # <<>> /\ callers[c].pc = "done" }

\* C26: with try_create run as a transaction, whatever the interleaving of the
\* add_item and delete_item calls, the watchlist never holds more than
\* max_items items.
C26_SizeLimit ==
    (callers # <<>> /\ \A c \in Callers : callers[c].transactional) =>
        Cardinality(watchlist) <= max_items

\* the rollback of the call of caller c did what it is there for
RolledBack(c) == callers[c].history_failed /\ ~callers[c].rollback_failed

LockHolders == { p \in Migrators : migrators # <<>> /\ migrators[p].acquired }

\* the invocations that returned True
Appliers == { p \in Migrators : migrators # <<>> /\ migrators[p].result = "True" }

\* C28: at most one invocation writes the whole list of operations and
\* returns True; an invocation that found the marker (it started after the
\* completion) or found the lock document held returns False and has written
\* nothing; and the lock document exists only while the invocation that
\* created it is still running.
C28_AppliedOnce ==
    migrators # <<>> =>
        /\ Cardinality(Appliers) <= 1
        /\ \A p \in Appliers :
             migrators[p].written = Len(build_initial_migration_operations)
        /\ \A p \in Migrators :
             (migrators[p].saw_marker \/ migrators[p].saw_lock) =>
                 /\ migrators[p].result = "False"
                 /\ migrators[p].written = 0
        /\ Cardinality(LockHolders) <= 1
        /\ DocumentStore_exists(documents, MIGRATION_LOCK_DOC_PATH) <=> LockHolders # {}
        /\ \A p \in LockHolders : migrators[p].pc \in {"recheck", "write", "release"}

\* three finished invocations: one failed in the middle of its writes, one
\* then applied the migration, and one that had passed the first look at the
\* marker before that found the marker under the lock
C28_Witness ==
    /\ migrators # <<>>
    /\ \A p \in Migrators : migrators[p].pc = "done"
    /\ \E p, q, r \in Migrators :
         /\ migrators[p].result = "Exception" /\ migrators[p].written = 3
         /\ migrators[q].result = "True"
         /\ migrators[r].result = "False" /\ migrators[r].saw_marker
         /\ migrators[r].index = 1 /\ ~migrators[r].saw_lock
    /\ ~DocumentStore_exists(documents, MIGRATION_LOCK_DOC_PATH)
    /\ DocumentStore_exists(documents, MIGRATION_DOC_PATH)

\* C29: in every state of the store, also one left by a set_document that
\* raised part-way through the writes, the marker document exists only if the
\* schema document and the registry document of every collection exist.
C29_MarkerLast ==
    DocumentStore_exists(documents, MIGRATION_DOC_PATH) =>
        /\ DocumentStore_exists(documents, META_SCHEMA_DOC_PATH)
        /\ \A i \in DOMAIN ALL_COLLECTIONS :
             DocumentStore_exists(documents, RegistryPath(ALL_COLLECTIONS[i]))

\* an invocation failed at the marker itself: everything but the marker is
\* written, the lock is released, and a later invocation is in its writes
C29_Witness ==
    /\ migrators # <<>>
    /\ \E p, q \in Migrators :
         /\ migrators[p].pc = "done" /\ migrators[p].result = "Exception"
         /\ migrators[p].written = Len(build_initial_migration_operations) - 1
         /\ migrators[q].pc = "write" /\ migrators[q].written = 2
    /\ ~DocumentStore_exists(documents, MIGRATION_DOC_PATH)
    /\ \A i \in DOMAIN ALL_COLLECTIONS :
         DocumentStore_exists(documents, RegistryPath(ALL_COLLECTIONS[i]))

\* the names a list of missing fields holds: stripped, blanks left out
FieldSet(missing_fields) ==
    { strip(missing_fields[i]) : i \in DOMAIN missing_fields } \ {""}

\* the stated listing: the names of the set, each once, in alphabetical order
\* ("unknown" alone when the set is empty)
StatedListing(listing, fields) ==
    IF fields = {} THEN listing = <<"unknown">>
    ELSE /\ { listing[i] : i \in DOMAIN listing } = fields
         /\ Len(listing) = Cardinality(fields)
         /\ \A i, j \in DOMAIN listing : i < j => FieldRank(listing[i]) < FieldRank(listing[j])

\* C30: format_data_unknown_message gives the condition key "UNKNOWN:" + the
\* sorted, de-duplicated, blank-stripped names and lists the same names in its
\* body; two lists holding the same set of names, in any order and with any
\* multiplicity, give the same condition key and the same listing, and the
\* second of two such events of one ticker is skipped by the cooldown gate.
C30_DataUnknownIdentity ==
    (calc # None /\ calc.fn = "format_data_unknown_message" /\ calc.done) =>
      /\ calc.result.message.condition_key.prefix = "UNKNOWN"
      /\ StatedListing(calc.result.message.condition_key.rest, FieldSet(calc.args.missing_fields))
      /\ calc.result.message.body.items = calc.result.message.condition_key.rest
      /\ (calc.again # None /\ FieldSet(calc.again.missing_fields) = FieldSet(calc.args.missing_fields)) =>
            /\ calc.again.message.condition_key = calc.result.message.condition_key
            /\ calc.again.message.body.items = calc.result.message.body.items
            /\ calc.result.dispatch.ret = <<1, 0>>
            /\ calc.again.dispatch.ret = <<0, 1>>
            /\ calc.again.dispatch.decision.reason = "cooldown"

\* the first event lists eps_forecast, a padded close_price and a blank; the
\* second lists close_price twice and eps_forecast, and is skipped
C30_Witness ==
    /\ calc # None /\ calc.fn = "format_data_unknown_message" /\ calc.done
    /\ calc.args.missing_fields = <<"eps_forecast", " close_price ", " ">>
    /\ calc.again # None
    /\ calc.again.missing_fields = <<"close_price", "eps_forecast", "close_price">>
    /\ calc.result.message.condition_key.rest = <<"close_price", "eps_forecast">>
    /\ calc.again.dispatch.ret = <<0, 1>>

\* two log entries of one notification: same ticker, category and condition_key
SameNotification(a, b) ==
    /\ a.ticker = b.ticker
    /\ a.category = b.category
    /\ a.condition_key = b.condition_key

\* C31: on a log that starts empty and under one cooldown_hours, an entry
\* written after an entry of the same ticker, category and condition_key, and
\* with a later sent_at, has a sent_at more than cooldown_hours after it.
C31_LogSpacing ==
    [][\A b \in notification_log' \ notification_log : \A a \in notification_log :
          (SameNotification(a, b)
             /\ _parse_iso_datetime(b.sent_at) > _parse_iso_datetime(a.sent_at))
            => _parse_iso_datetime(b.sent_at) - _parse_iso_datetime(a.sent_at) > BacklogCooldownHours]_vars

\* ---- evaluate_cooldown and the is_strong flags (SpecCooldown)

\* recent_entries with the is_strong flag of each entry replaced by flags[i]
WithStrongFlags(recent_entries, flags) ==
    [i \in DOMAIN recent_entries |-> [recent_entries[i] EXCEPT !.is_strong = flags[i]]]

\* some entry of the candidate's ticker, category and condition_key has
\* sent_at >= now - cooldown_hours
SameKeyInsideWindow(args) ==
    \E i \in DOMAIN args.recent_entries :
        LET entry == args.recent_entries[i]
        IN /\ entry.ticker = normalize_ticker(args.candidate_ticker)
           /\ entry.category = args.candidate.category
           /\ entry.condition_key = args.candidate.condition_key
           /\ _parse_iso_datetime(entry.sent_at) >= _parse_iso_datetime(args.now_iso) - args.cooldown_hours

\* C32: when evaluate_cooldown returns a decision, should_send is false if and
\* only if some entry of the same ticker, category and condition_key has
\* sent_at >= now - cooldown_hours; it is the same for either is_strong of the
\* candidate and for every choice of the entries' is_strong flags, so a strong
\* candidate is blocked by a same-key entry even when a non-strong entry of the
\* same metric type is inside the window.
C32_StrongFlagsDoNotDecide ==
    (calc # None /\ calc.fn = "evaluate_cooldown" /\ calc.done /\ ~calc.result.raised) =>
        /\ calc.result.should_send = ~SameKeyInsideWindow(calc.args)
        /\ \A candidate_is_strong \in BOOLEAN :
           \A flags \in [DOMAIN calc.args.recent_entries -> BOOLEAN] :
              evaluate_cooldown(calc.args.now_iso, calc.args.cooldown_hours,
                                calc.args.candidate_ticker, calc.args.candidate.category,
                                calc.args.candidate.condition_key, candidate_is_strong,
                                WithStrongFlags(calc.args.recent_entries, flags)).should_send
                = calc.result.should_send

\* a strong candidate, its own entry inside the window listed first and a
\* non-strong entry of the same metric type inside the window after it: blocked
C32_Witness ==
    /\ calc # None /\ calc.fn = "evaluate_cooldown" /\ calc.done
    /\ calc.args.candidate.is_strong
    /\ calc.args.cooldown_hours = 2
    /\ Len(calc.args.recent_entries) = 2
    /\ calc.args.recent_entries[1].category = calc.args.candidate.category
    /\ calc.args.recent_entries[1].ticker = "T1"
    /\ calc.args.recent_entries[1].sent_at.clock = 0
    /\ calc.args.recent_entries[2].category = "PER_CHEAP"
    /\ calc.args.recent_entries[2].ticker = "T1"
    /\ ~calc.args.recent_entries[2].is_strong
    /\ calc.args.recent_entries[2].sent_at.clock = 2
    /\ ~calc.result.should_send
    /\ calc.result.reason = "cooldown"

\* ---- log entries and sends (SpecJobs)

\* C33: in every step of a daily or earnings run the log only grows; each new
\* entry is written by a step whose send did not raise, carries sent_at = the
\* now of the run and the hash of the delivered body of its ticker and category;
\* the number of new entries is the increase of result.sent_notifications; and
\* a step whose send raised leaves the log as it was.
C33_LogFollowsSends ==
    [][run.status = "running" =>
         LET appended == notification_log' \ notification_log
         IN /\ notification_log \subseteq notification_log'
            /\ Cardinality(appended)
                 = run'.result.sent_notifications - run.result.sent_notifications
            /\ \A e \in appended :
                  /\ last_item' # None
                  /\ "send" \notin last_item'.faults
                  /\ e.sent_at = run.config.now_iso
                  /\ \E body \in outbox' : /\ e.payload_hash = Sha1(body)
                                            /\ body.ticker = e.ticker
                                            /\ body.head = e.category
            /\ (last_item' # last_item /\ "send" \in last_item'.faults) =>
                  /\ notification_log' = notification_log
                  /\ outbox' = outbox
      ]_vars

\* a run that sent and logged for its first ticker and whose send raised for
\* the second: one entry, one sent, one error
C33_Witness ==
    /\ run.status = "running"
    /\ run.result = PipelineResult(2, 1, 0, 1)
    /\ Cardinality(notification_log) = 1
    /\ last_item # None
    /\ last_item.faults = {"send"}
    /\ \A e \in notification_log : e.sent_at = run.config.now_iso

\* ---- the counters of PipelineResult (SpecJobs)

\* what one step adds to the four counters of the result
CounterStep(before, after) ==
    PipelineResult(after.processed_tickers - before.processed_tickers,
                   after.sent_notifications - before.sent_notifications,
                   after.skipped_notifications - before.skipped_notifications,
                   after.errors - before.errors)

\* C34: in a daily or earnings run, a loop step that processes a ticker (or a
\* matched calendar row) adds exactly 1 to processed_tickers, 0 or 1 to
\* sent_notifications + skipped_notifications and 0 or 1 to errors, every
\* other step adds nothing, and the accumulated result has
\* sent + skipped <= processed, errors <= processed and no negative counter.
C34_CounterInvariant ==
    [][run.status = "running" =>
         LET step == CounterStep(run.result, run'.result)
             total == run'.result
         IN /\ IF Len(run'.visited) = Len(run.visited) + 1
               THEN /\ step.processed_tickers = 1
                    /\ step.sent_notifications \in {0, 1}
                    /\ step.skipped_notifications \in {0, 1}
                    /\ step.sent_notifications + step.skipped_notifications <= 1
                    /\ step.errors \in {0, 1}
               ELSE step = PipelineResult(0, 0, 0, 0)
            /\ total.processed_tickers = Len(run'.visited)
            /\ total.sent_notifications + total.skipped_notifications <= total.processed_tickers
            /\ total.errors <= total.processed_tickers
            /\ total.processed_tickers >= 0 /\ total.sent_notifications >= 0
            /\ total.skipped_notifications >= 0 /\ total.errors >= 0
      ]_vars

\* a daily run that returned after two tickers: one sent, and one whose
\* processing raised, which counts as processed and as an error
C34_Witness ==
    /\ run.pipeline = "daily"
    /\ run.status = "returned"
    /\ Len(run.visited) = 2
    /\ run.result = PipelineResult(2, 1, 0, 1)

\* ---- definedness of the medians (SpecMetrics)

\* C35: when calculate_metric_medians returns, median_1y non-null implies
\* median_3m non-null and median_3m non-null implies median_1w non-null; so
\* evaluate_signal on these medians gives a combo, for any metric value, only
\* when the history holds at least window_3m_days values, and a combo with 1Y
\* only when it holds at least window_1y_days values.
C35_MedianDefinednessMonotone ==
    (calc # None /\ calc.fn = "calculate_metric_medians" /\ calc.done /\ ~calc.result.raised) =>
        LET medians == calc.result.value
        IN /\ medians.median_1y # NoValue => medians.median_3m # NoValue
           /\ medians.median_3m # NoValue => medians.median_1w # NoValue
           /\ \A metric_value \in 0..MaxValue :
                LET e == evaluate_signal("T1", 1, calc.args.metric_type, metric_value, medians)
                IN /\ e.combo # Null => Cardinality(ValuedRows) >= calc.args.windows[2]
                   /\ e.combo \in {"1Y+3M", "1Y+1W", "1Y+3M+1W"}
                        => Cardinality(ValuedRows) >= calc.args.windows[3]

\* a PER history of two values read with windows (1, 2, 3): the 1W and 3M
\* medians are defined, the 1Y median is not, and a value below both medians
\* gives the combo 3M+1W
C35_Witness ==
    /\ calc # None /\ calc.fn = "calculate_metric_medians" /\ calc.done
    /\ calc.args.metric_type = "PER"
    /\ calc.args.windows = <<1, 2, 3>>
    /\ Cardinality(ValuedRows) = 2
    /\ calc.result.value.median_1w # NoValue
    /\ calc.result.value.median_3m # NoValue
    /\ calc.result.value.median_1y = NoValue
    /\ evaluate_signal("T1", 1, "PER", 0, calc.result.value).combo = "3M+1W"

\* ---- streak and category of the persisted states (SpecStreak)

\* C36: after any sequence of daily runs from an empty state store, every
\* persisted SignalState has streak_days >= 0, streak_days >= 1 exactly when
\* its category is not null, and streak_days = 0 exactly when it is null.
C36_StreakAgreesWithCategory ==
    \A state \in signal_states :
        /\ state.streak_days >= 0
        /\ (state.streak_days >= 1) <=> (state.category # Null)
        /\ (state.streak_days = 0) <=> (state.category = Null)

\* the store holds a state without a category (streak 0), a state that starts
\* a streak and a state that continues one
C36_Witness ==
    /\ \E state \in signal_states : state.category = Null /\ state.streak_days = 0
    /\ \E state \in signal_states : state.category # Null /\ state.streak_days = 1
    /\ \E state \in signal_states : state.category # Null /\ state.streak_days = 2

\* ---- missing fields and the metric value (SpecMetrics)

\* C37: for every snapshot and metric_type, the row built by build_daily_metric
\* has no missing field for the metric_type exactly when its value of that
\* type (per_value for PER, psr_value for PSR) is not null.
C37_MissingFieldsAgreeWithValue ==
    (calc # None /\ calc.fn = "build_daily_metric" /\ calc.done /\ calc.missing # None) =>
        LET metric_value == IF calc.args.metric_type = "PER" THEN calc.result.per_value
                            ELSE calc.result.psr_value
        IN (calc.missing.fields = <<>>) <=> (metric_value # NoValue)

\* a PER row with a price and an eps forecast of 0: eps_forecast is reported
\* missing and per_value is null, while the PSR value of the row is defined
C37_Witness ==
    /\ calc # None /\ calc.fn = "build_daily_metric" /\ calc.done /\ calc.missing # None
    /\ calc.args.metric_type = "PER"
    /\ calc.args.snapshot = Snapshot(2, 0, 2, NoValue, Null)
    /\ calc.missing.fields = <<"eps_forecast">>
    /\ calc.result.per_value = NoValue
    /\ calc.result.psr_value = 1

\* ---- the log is read at every dispatch (SpecJobs)

\* an entry of the log, written earlier in the run, of the notification of message
LoggedInRun(message) ==
    \E e \in notification_log : /\ e.sent_at = run.config.now_iso
                                /\ e.ticker = message.ticker
                                /\ e.category = message.category
                                /\ e.condition_key = message.condition_key

\* C38: every dispatch of a run sees the entries appended earlier in the run.
\* A step that counts a sent notification appends one entry whose ticker,
\* category and condition_key no earlier entry of the run has; and in an
\* earnings run a matched row whose notification was already logged in the
\* run is skipped (no send, no entry), while one that was not is sent.
C38_LogReadAtEveryDispatch ==
    [][(run.status = "running" /\ Len(run'.visited) = Len(run.visited) + 1) =>
         LET step == CounterStep(run.result, run'.result)
             appended == notification_log' \ notification_log
         IN /\ step.sent_notifications = 1 =>
                 /\ Cardinality(appended) = 1
                 /\ \A e \in appended : ~LoggedInRun(e)
            /\ (run.pipeline \in {"weekly_earnings", "tomorrow_earnings"}
                  /\ last_item'.faults = {}) =>
                 LET entry == run.entries[run.index]
                     message == format_earnings_message(entry.ticker, last_item'.watch_item.name,
                                                        entry.earnings_date, entry.earnings_time,
                                                        run.config.category).value
                 IN IF LoggedInRun(message)
                    THEN /\ step = PipelineResult(1, 0, 1, 0)
                         /\ notification_log' = notification_log
                         /\ outbox' = outbox
                    ELSE /\ step = PipelineResult(1, 1, 0, 0)
                         /\ message.body \in outbox'
      ]_vars

\* a calendar with two rows of T1 for the same earnings_date: the first row is
\* sent and logged, the second is skipped
C38_Witness ==
    /\ run.pipeline \in {"weekly_earnings", "tomorrow_earnings"}
    /\ Len(run.entries) = 2
    /\ run.entries[1] = run.entries[2]
    /\ run.entries[1].ticker = "T1"
    /\ Len(run.visited) = 2
    /\ run.result = PipelineResult(2, 1, 1, 0)
    /\ Cardinality(notification_log) = 1
    /\ last_item # None /\ last_item.faults = {}

====
